---- MODULE Spec2Model ----
(***************************************************************************)
(* Blind relay of apps/relay-server: the SessionStore registry             *)
(* (session-store.ts) and the per-connection frame handlers                *)
(* (websocket.ts), with the periodic cleanup timer of index.ts.            *)
(*                                                                         *)
(* Every handler runs to completion on the Node event loop, so each        *)
(* handler is one atomic action.  Times are small integers; the TTL is     *)
(* scaled to the same unit.  Fields the code writes but never reads        *)
(* (Client.connectedAt, Session.createdAt, Session.id) are not carried.    *)
(***************************************************************************)
EXTENDS Integers, Sequences, FiniteSets, TLC

\* ---- bounds ------------------------------------------------------------
NConn == 2
MaxTime == 2
MaxJoins == 3
MaxTrace == 2

\* ---- program constants (scaled) ----------------------------------------
sessionTtlMs == 1

\* ---- value universes ---------------------------------------------------
Conns == 1..NConn
Roles == {"desktop", "mobile"}
\* session_id is any string the parser accepts, the empty string included
SessionIds == {"", "S1"}
NULL == "<null>"
Undefined == "<undefined>"
Payloads == {"ENC1", "ENC2"}
FrameTypes == {"join", "message", "ping", "leave"}

\* a raw inbound frame, before parseMessage: json = FALSE stands for text
\* that JSON.parse rejects or that is not an object; NULL stands for a
\* field that is absent or of the wrong type.
RawFrames ==
  [json : {TRUE}, session_id : SessionIds, role : Roles,
   type : {"message"}, payload : Payloads]
  \cup
  [json : {TRUE}, session_id : SessionIds, role : Roles,
   type : {"join"}, payload : {Undefined}]
  \cup
  \* handlePing and handleLeave never read the frame's fields
  [json : {TRUE}, session_id : SessionIds, role : {"desktop"},
   type : {"ping", "leave"}, payload : {Undefined}]
  \cup
  {[json |-> FALSE, session_id |-> NULL, role |-> NULL, type |-> NULL, payload |-> Undefined],
   [json |-> TRUE, session_id |-> NULL, role |-> "desktop", type |-> "join", payload |-> Undefined],
   [json |-> TRUE, session_id |-> "S1", role |-> "tablet", type |-> "join", payload |-> Undefined],
   [json |-> TRUE, session_id |-> "S1", role |-> "mobile", type |-> "hello", payload |-> "ENC1"]}

NoMessage == [session_id |-> NULL, role |-> NULL, type |-> NULL, payload |-> Undefined]

\* ClientContext before any join
NoCtx == [sessionId |-> NULL, role |-> NULL]

\* no Client in a slot (null)
NoClient == [socket |-> 0, role |-> NULL, lastHeartbeat |-> 0]

VARIABLES
  sessions,    \* SessionStore.sessions: Map<string, Session>
  ctx,         \* ClientContext of every connection
  readyState,  \* WebSocket.readyState of every connection
  now,         \* the clock read by new Date() / Date.now()
  out,         \* frames handed to socket.send by the last handler, in order
  last,        \* the event the last handler served
  joins,       \* number of join frames served so far
  trace        \* when switched on: who sent the k-th `message` frame served,
               \* and the numbers of the frames written to every socket, in
               \* the order of the writes

\* packages/core is a library of pure functions; the three variables below
\* hold the inputs and results of the scenarios that exercise it, and stay
\* switched off while the relay runs
VARIABLES
  kx,          \* key exchange and encryption (crypto.ts)
  qr,          \* pairing codec (qr.ts)
  val          \* message validation (protocol.ts)

\* the handlers of the relay statement by statement: what each callback that
\* has been entered still has to execute; switched off in the specifications
\* above, where a handler is one step
VARIABLES
  task

\* one call of constantTimeEqual (crypto.ts): its arguments and what it
\* returned; switched off outside CompareSpec
VARIABLES
  cmp

vars == <<sessions, ctx, readyState, now, out, last, joins, trace, kx, qr, val, task, cmp>>
relayVars == <<sessions, ctx, readyState, now, out, last, joins, trace>>
libVars == <<kx, qr, val, task, cmp>>

Off == [stage |-> "off"]

NoTrace ==
  [on |-> FALSE, served |-> << >>, wire |-> [c \in Conns |-> << >>],
   presence |-> FALSE, left |-> {}]

\* ---- JavaScript truthiness of string | null ----------------------------
Truthy(x) == x # NULL /\ x # ""

\* ---- outbound frames (RelayResponse) -----------------------------------
Frame(t, p, e) == [type |-> t, payload |-> p, error |-> e]
ErrorFrame(e) == Frame("error", Undefined, e)
Plain(t) == Frame(t, Undefined, Undefined)

\* send(): socket.send only when the socket is OPEN, else nothing
send(c, message) ==
  IF readyState[c] = "OPEN"
    THEN << [to |-> c, type |-> message.type, payload |-> message.payload,
             error |-> message.error] >>
    ELSE << >>

\* parseMessage without the test of the role
parseMessage_AnyRole(raw) ==
  IF ~raw.json THEN NoMessage
  ELSE IF raw.session_id = NULL THEN NoMessage
  ELSE IF raw.type \notin {"join", "message", "ping", "leave"} THEN NoMessage
  ELSE [session_id |-> raw.session_id, role |-> raw.role,
        type |-> raw.type, payload |-> raw.payload]

\* parseMessage(): null unless session_id is a string, role is one of the
\* two roles and type is one of the four kinds
parseMessage(raw) ==
  IF ~raw.json THEN NoMessage
  ELSE IF raw.session_id = NULL THEN NoMessage
  ELSE IF raw.role # "desktop" /\ raw.role # "mobile" THEN NoMessage
  ELSE IF raw.type \notin {"join", "message", "ping", "leave"} THEN NoMessage
  ELSE [session_id |-> raw.session_id, role |-> raw.role,
        type |-> raw.type, payload |-> raw.payload]

\* ---- SessionStore ------------------------------------------------------
MapSet(m, k, v) == [x \in DOMAIN m \cup {k} |-> IF x = k THEN v ELSE m[x]]
MapDelete(m, k) == [x \in DOMAIN m \ {k} |-> m[x]]

getOrCreate(ss, sessionId) ==
  IF sessionId \in DOMAIN ss THEN ss
  ELSE MapSet(ss, sessionId,
              [desktop |-> NoClient, mobile |-> NoClient,
               expiresAt |-> now + sessionTtlMs])

\* addClient with the two roles of the peer lookup swapped
addClient_SameRolePeer(ss, sessionId, client) ==
  LET ss1 == getOrCreate(ss, sessionId)
      session == ss1[sessionId]
      existingPeer == IF client.role = "desktop" THEN session.desktop
                                                 ELSE session.mobile
      session2 == IF client.role = "desktop"
                    THEN [session EXCEPT !.desktop = client]
                    ELSE [session EXCEPT !.mobile = client]
      session3 == [session2 EXCEPT !.expiresAt = now + sessionTtlMs]
  IN [sessions |-> MapSet(ss1, sessionId, session3),
      existingPeer |-> existingPeer]

addClient(ss, sessionId, client) ==
  LET ss1 == getOrCreate(ss, sessionId)
      session == ss1[sessionId]
      existingPeer == IF client.role = "desktop" THEN session.mobile
                                                 ELSE session.desktop
      session2 == IF client.role = "desktop"
                    THEN [session EXCEPT !.desktop = client]
                    ELSE [session EXCEPT !.mobile = client]
      session3 == [session2 EXCEPT !.expiresAt = now + sessionTtlMs]
  IN [sessions |-> MapSet(ss1, sessionId, session3),
      existingPeer |-> existingPeer]

\* removeClient without the deletion of a session left with no client
removeClient_KeepsEmpty(ss, sessionId, role) ==
  IF sessionId \notin DOMAIN ss THEN [sessions |-> ss, client |-> NoClient]
  ELSE
    LET session == ss[sessionId]
        client == IF role = "desktop" THEN session.desktop ELSE session.mobile
        session2 == IF role = "desktop"
                      THEN [session EXCEPT !.desktop = NoClient]
                      ELSE [session EXCEPT !.mobile = NoClient]
    IN [sessions |-> MapSet(ss, sessionId, session2), client |-> client]

removeClient(ss, sessionId, role) ==
  IF sessionId \notin DOMAIN ss THEN [sessions |-> ss, client |-> NoClient]
  ELSE
    LET session == ss[sessionId]
        client == IF role = "desktop" THEN session.desktop ELSE session.mobile
        session2 == IF role = "desktop"
                      THEN [session EXCEPT !.desktop = NoClient]
                      ELSE [session EXCEPT !.mobile = NoClient]
    IN [sessions |-> IF session2.desktop = NoClient /\ session2.mobile = NoClient
                       THEN MapDelete(ss, sessionId)
                       ELSE MapSet(ss, sessionId, session2),
        client |-> client]

\* getPeer that looks in the caller's own slot
getPeer_SameRole(ss, sessionId, role) ==
  IF sessionId \notin DOMAIN ss THEN NoClient
  ELSE IF role = "desktop" THEN ss[sessionId].desktop ELSE ss[sessionId].mobile

getPeer(ss, sessionId, role) ==
  IF sessionId \notin DOMAIN ss THEN NoClient
  ELSE IF role = "desktop" THEN ss[sessionId].mobile ELSE ss[sessionId].desktop

\* updateHeartbeat that sets the expiry to the current time, TTL forgotten
updateHeartbeat_NoTtl(ss, sessionId, role) ==
  IF sessionId \notin DOMAIN ss THEN ss
  ELSE
    LET session == ss[sessionId]
        client == IF role = "desktop" THEN session.desktop ELSE session.mobile
        session2 ==
          IF client # NoClient
            THEN IF role = "desktop"
                   THEN [session EXCEPT !.desktop.lastHeartbeat = now]
                   ELSE [session EXCEPT !.mobile.lastHeartbeat = now]
            ELSE session
    IN MapSet(ss, sessionId, [session2 EXCEPT !.expiresAt = now])

updateHeartbeat(ss, sessionId, role) ==
  IF sessionId \notin DOMAIN ss THEN ss
  ELSE
    LET session == ss[sessionId]
        client == IF role = "desktop" THEN session.desktop ELSE session.mobile
        session2 ==
          IF client # NoClient
            THEN IF role = "desktop"
                   THEN [session EXCEPT !.desktop.lastHeartbeat = now]
                   ELSE [session EXCEPT !.mobile.lastHeartbeat = now]
            ELSE session
    IN MapSet(ss, sessionId, [session2 EXCEPT !.expiresAt = now + sessionTtlMs])

\* cleanupExpired(): the sessions it deletes, the sockets it closes
\* Expired with the session that expires at this very instant included
Expired_Inclusive(ss) == {id \in DOMAIN ss : ss[id].expiresAt <= now}

Expired(ss) == {id \in DOMAIN ss : ss[id].expiresAt < now}

\* cleanupExpired that closes the sockets but keeps the entries
cleanupExpired_KeepsSessions(ss) ==
  LET gone == Expired(ss)
  IN [sessions |-> ss,
      closed |-> {c \in Conns : readyState[c] = "OPEN" /\
                    \E id \in gone : ss[id].desktop.socket = c \/ ss[id].mobile.socket = c},
      cleaned |-> Cardinality(gone)]

cleanupExpired(ss) ==
  LET gone == Expired(ss)
  IN [sessions |-> [x \in DOMAIN ss \ gone |-> ss[x]],
      closed |-> {c \in Conns : readyState[c] = "OPEN" /\
                    \E id \in gone : ss[id].desktop.socket = c \/ ss[id].mobile.socket = c},
      cleaned |-> Cardinality(gone)]

\* ---- handlers (websocket.ts): result = registry, context, frames sent --
Result(ss, cx, o) == [sessions |-> ss, ctx |-> cx, out |-> o]

Joined(c) == Truthy(ctx[c].sessionId) /\ Truthy(ctx[c].role)

\* the leave shared by handleJoin (implicit), handleLeave and the close handler
LeaveSlot(c) ==
  LET peer == getPeer(sessions, ctx[c].sessionId, ctx[c].role)
      rem == removeClient(sessions, ctx[c].sessionId, ctx[c].role)
  IN [sessions |-> rem.sessions,
      out |-> IF peer # NoClient THEN send(peer.socket, Plain("peer_left")) ELSE << >>]

\* handleJoin that replays a stored frame to a joiner who finds a peer
handleJoin_Replays(c, message) ==
  LET left == IF Joined(c) THEN LeaveSlot(c)
                           ELSE [sessions |-> sessions, out |-> << >>]
      added == addClient(left.sessions, message.session_id,
                         [socket |-> c, role |-> message.role, lastHeartbeat |-> now])
  IN Result(added.sessions,
            [ctx EXCEPT ![c] = [sessionId |-> message.session_id, role |-> message.role]],
            left.out \o send(c, Plain("joined")) \o
              (IF added.existingPeer # NoClient
                 THEN send(added.existingPeer.socket, Plain("peer_joined")) \o
                      send(c, Frame("message", "ENC1", Undefined))
                 ELSE << >>))

handleJoin(c, message) ==
  LET left == IF Joined(c) THEN LeaveSlot(c)
                           ELSE [sessions |-> sessions, out |-> << >>]
      added == addClient(left.sessions, message.session_id,
                         [socket |-> c, role |-> message.role, lastHeartbeat |-> now])
  IN Result(added.sessions,
            [ctx EXCEPT ![c] = [sessionId |-> message.session_id, role |-> message.role]],
            left.out \o send(c, Plain("joined")) \o
              (IF added.existingPeer # NoClient
                 THEN send(added.existingPeer.socket, Plain("peer_joined"))
                 ELSE << >>))

\* handleMessage that looks into the payload and refuses one of the values
handleMessage_Inspects(c, message) ==
  IF ~Truthy(ctx[c].sessionId) \/ ~Truthy(ctx[c].role)
    THEN Result(sessions, ctx, send(c, ErrorFrame("Not joined to a session")))
  ELSE IF ctx[c].sessionId # message.session_id \/ ctx[c].role # message.role
    THEN Result(sessions, ctx, send(c, ErrorFrame("Session/role mismatch")))
  ELSE
    LET peer == getPeer(sessions, ctx[c].sessionId, ctx[c].role)
    IN IF peer = NoClient \/ message.payload = "ENC2"
         THEN Result(sessions, ctx, send(c, ErrorFrame("Peer not connected")))
         ELSE Result(sessions, ctx,
                     send(peer.socket, Frame("message", message.payload, Undefined)))

\* handleMessage without the test of the connection's context
handleMessage_NoJoinCheck(c, message) ==
  IF ctx[c].sessionId # message.session_id \/ ctx[c].role # message.role
    THEN Result(sessions, ctx, send(c, ErrorFrame("Session/role mismatch")))
  ELSE
    LET peer == getPeer(sessions, ctx[c].sessionId, ctx[c].role)
    IN IF peer = NoClient
         THEN Result(sessions, ctx, send(c, ErrorFrame("Peer not connected")))
         ELSE Result(sessions, ctx,
                     send(peer.socket, Frame("message", message.payload, Undefined)))

\* handleMessage that counts a relayed frame as a heartbeat
handleMessage_Heartbeats(c, message) ==
  IF ~Truthy(ctx[c].sessionId) \/ ~Truthy(ctx[c].role)
    THEN Result(sessions, ctx, send(c, ErrorFrame("Not joined to a session")))
  ELSE IF ctx[c].sessionId # message.session_id \/ ctx[c].role # message.role
    THEN Result(sessions, ctx, send(c, ErrorFrame("Session/role mismatch")))
  ELSE
    LET peer == getPeer(sessions, ctx[c].sessionId, ctx[c].role)
    IN IF peer = NoClient
         THEN Result(sessions, ctx, send(c, ErrorFrame("Peer not connected")))
         ELSE Result(updateHeartbeat(sessions, ctx[c].sessionId, ctx[c].role), ctx,
                     send(peer.socket, Frame("message", message.payload, Undefined)))

handleMessage(c, message) ==
  IF ~Truthy(ctx[c].sessionId) \/ ~Truthy(ctx[c].role)
    THEN Result(sessions, ctx, send(c, ErrorFrame("Not joined to a session")))
  ELSE IF ctx[c].sessionId # message.session_id \/ ctx[c].role # message.role
    THEN Result(sessions, ctx, send(c, ErrorFrame("Session/role mismatch")))
  ELSE
    LET peer == getPeer(sessions, ctx[c].sessionId, ctx[c].role)
    IN IF peer = NoClient
         THEN Result(sessions, ctx, send(c, ErrorFrame("Peer not connected")))
         ELSE Result(sessions, ctx,
                     send(peer.socket, Frame("message", message.payload, Undefined)))

\* fastify.log.debug of handleMessage: the entry written when a frame is
\* relayed, none otherwise
NoLog == [sessionId |-> NULL, from |-> NULL, msg |-> NULL]

handleMessageLog(c, message) ==
  IF ~Truthy(ctx[c].sessionId) \/ ~Truthy(ctx[c].role) THEN NoLog
  ELSE IF ctx[c].sessionId # message.session_id \/ ctx[c].role # message.role THEN NoLog
  ELSE IF getPeer(sessions, ctx[c].sessionId, ctx[c].role) = NoClient THEN NoLog
  ELSE [sessionId |-> ctx[c].sessionId, from |-> ctx[c].role, msg |-> "Message relayed"]

handlePing(c, message) ==
  Result(IF Joined(c) THEN updateHeartbeat(sessions, ctx[c].sessionId, ctx[c].role)
                      ELSE sessions,
         ctx, send(c, Plain("pong")))

handleLeave(c) ==
  IF ~Truthy(ctx[c].sessionId) \/ ~Truthy(ctx[c].role)
    THEN Result(sessions, ctx, send(c, ErrorFrame("Not joined to a session")))
  ELSE
    LET left == LeaveSlot(c)
    IN Result(left.sessions,
              [ctx EXCEPT ![c] = NoCtx],
              left.out)

onClose(c) ==
  IF Joined(c)
    THEN LET left == LeaveSlot(c) IN Result(left.sessions, ctx, left.out)
    ELSE Result(sessions, ctx, << >>)

\* ---- events ------------------------------------------------------------
\* fastify.get("/ws"): every connection starts open with an empty context.
\* Connections in that state are interchangeable, so they are numbered in the
\* order in which they leave it: only the lowest-numbered one is served.
Fresh(c) == readyState[c] = "OPEN" /\ ctx[c] = NoCtx
Served(c) == readyState[c] = "OPEN" /\ \A d \in Conns : d < c => ~Fresh(d)

Event(op, c) == [op |-> op, c |-> c]

\* socket.send() writes to the socket's stream behind what was written
\* before: the `message` frames of o, all copies of inbound frame number id,
\* are appended to the streams of their destinations
RECURSIVE Deliver_Front(_, _, _)
Deliver_Front(w, o, id) ==
  IF o = << >> THEN w
  ELSE Deliver_Front(IF Head(o).type = "message"
                       THEN [w EXCEPT ![Head(o).to] = << id >> \o @]
                       ELSE w,
                     Tail(o), id)

RECURSIVE Deliver(_, _, _)
Deliver(w, o, id) ==
  IF o = << >> THEN w
  ELSE Deliver(IF Head(o).type = "message"
                 THEN [w EXCEPT ![Head(o).to] = Append(@, id)]
                 ELSE w,
               Tail(o), id)

\* the connections whose latest news of their peer is `peer_left`: o is
\* what a handler wrote, in order; a connection's own join starts it afresh
RECURSIVE Told(_, _)
Told(left, o) ==
  IF o = << >> THEN left
  ELSE Told(IF Head(o).type = "peer_left" THEN left \cup {Head(o).to}
            ELSE IF Head(o).type \in {"peer_joined", "joined"} THEN left \ {Head(o).to}
            ELSE left,
            Tail(o))

Apply(res, ev) ==
  /\ sessions' = res.sessions
  /\ ctx' = res.ctx
  /\ out' = res.out
  /\ last' = ev
  /\ joins' = IF ev.op = "join" THEN joins + 1 ELSE joins
  /\ trace' = IF trace.presence
                THEN [trace EXCEPT !.left = Told(IF ev.op = "join" THEN @ \ {ev.c} ELSE @,
                                                 res.out)]
              ELSE IF ~trace.on THEN trace
              ELSE LET served == IF ev.op = "message"
                                   THEN Append(trace.served, ev.c)
                                   ELSE trace.served
                   IN [trace EXCEPT !.served = served,
                                    !.wire = Deliver(@, res.out, Len(served))]
  /\ UNCHANGED <<readyState, now>>
  /\ UNCHANGED libVars

\* socket.on("message"): a frame read from an open socket
OnInvalid(c, raw) ==
  /\ Served(c)
  /\ parseMessage(raw) = NoMessage
  /\ Apply(Result(sessions, ctx, send(c, ErrorFrame("Invalid message format"))),
           Event("invalid", c))

OnJoin(c, raw) ==
  /\ Served(c)
  /\ parseMessage(raw).type = "join"
  /\ joins < MaxJoins
  /\ Apply(handleJoin(c, parseMessage(raw)), Event("join", c))

OnMessage(c, raw) ==
  /\ Served(c)
  /\ parseMessage(raw).type = "message"
  /\ trace.on => Len(trace.served) < MaxTrace
  /\ Apply(handleMessage(c, parseMessage(raw)), Event("message", c))

OnPing(c, raw) ==
  /\ Served(c)
  /\ parseMessage(raw).type = "ping"
  /\ Apply(handlePing(c, parseMessage(raw)), Event("ping", c))

OnLeave(c, raw) ==
  /\ Served(c)
  /\ parseMessage(raw).type = "leave"
  /\ Apply(handleLeave(c), Event("leave", c))

InRegistry(c) ==
  \E id \in DOMAIN sessions :
    sessions[id].desktop.socket = c \/ sessions[id].mobile.socket = c

\* the transport of an open connection goes away: readyState leaves OPEN,
\* the close event is still to be dispatched.  (The close of a connection
\* that never joined touches neither the registry nor any other connection
\* and is left out.)
SocketClosing(c) ==
  /\ Served(c)
  /\ ~Fresh(c) \/ InRegistry(c)
  /\ readyState' = [readyState EXCEPT ![c] = "CLOSING"]
  /\ out' = << >>
  /\ last' = Event("closing", c)
  /\ UNCHANGED <<sessions, ctx, now, joins, trace>>
  /\ UNCHANGED libVars

\* socket.on("close")
OnClose(c) ==
  /\ readyState[c] = "CLOSING"
  /\ LET res == onClose(c)
     IN /\ sessions' = res.sessions
        /\ ctx' = [res.ctx EXCEPT ![c] = NoCtx]  \* the closure is garbage now
        /\ out' = res.out
  /\ readyState' = [readyState EXCEPT ![c] = "CLOSED"]
  /\ last' = Event("close", c)
  /\ trace' = IF trace.presence THEN [trace EXCEPT !.left = Told(@, onClose(c).out)]
                                ELSE trace
  /\ UNCHANGED <<now, joins>>
  /\ UNCHANGED libVars

\* setInterval(() => sessionStore.cleanupExpired(), cleanupIntervalMs)
Sweep ==
  /\ LET res == cleanupExpired(sessions)
     IN /\ sessions' = res.sessions
        /\ readyState' = [c \in Conns |-> IF c \in res.closed THEN "CLOSING"
                                                              ELSE readyState[c]]
  /\ out' = << >>
  /\ last' = Event("sweep", 0)
  /\ UNCHANGED <<ctx, now, joins, trace>>
  /\ UNCHANGED libVars

\* time passes.  Only differences between clock readings are ever used, so
\* the clock is started by the first session: it stands still while the
\* registry is empty.
Tick ==
  /\ now < MaxTime
  /\ DOMAIN sessions # {}
  /\ now' = now + 1
  /\ out' = << >>
  /\ last' = Event("tick", 0)
  /\ UNCHANGED <<sessions, ctx, readyState, joins, trace>>
  /\ UNCHANGED libVars

Init ==
  /\ sessions = << >>
  /\ ctx = [c \in Conns |-> NoCtx]
  /\ readyState = [c \in Conns |-> "OPEN"]
  /\ now = 0
  /\ out = << >>
  /\ last = Event("init", 0)
  /\ joins = 0
  /\ trace = NoTrace
  /\ kx = Off /\ qr = Off /\ val = Off /\ task = Off /\ cmp = Off

\* the same start with the record of served and written frames switched on
OrderInit ==
  /\ sessions = << >>
  /\ ctx = [c \in Conns |-> NoCtx]
  /\ readyState = [c \in Conns |-> "OPEN"]
  /\ now = 0
  /\ out = << >>
  /\ last = Event("init", 0)
  /\ joins = 0
  /\ trace = [NoTrace EXCEPT !.on = TRUE]
  /\ kx = Off /\ qr = Off /\ val = Off /\ task = Off /\ cmp = Off

Next ==
  \/ \E c \in Conns, raw \in RawFrames : OnInvalid(c, raw)
  \/ \E c \in Conns, raw \in RawFrames : OnJoin(c, raw)
  \/ \E c \in Conns, raw \in RawFrames : OnMessage(c, raw)
  \/ \E c \in Conns, raw \in RawFrames : OnPing(c, raw)
  \/ \E c \in Conns, raw \in RawFrames : OnLeave(c, raw)
  \/ \E c \in Conns : SocketClosing(c)
  \/ \E c \in Conns : OnClose(c)
  \/ Sweep
  \/ Tick

Spec == Init /\ [][Next]_vars

\* the interval timer of index.ts keeps firing and the wall clock keeps
\* advancing, whatever the clients do
OrderSpec == OrderInit /\ [][Next]_vars

LiveSpec == Spec /\ WF_vars(Sweep) /\ WF_vars(Tick)

\* ---- vocabulary of the properties --------------------------------------
Other(r) == IF r = "desktop" THEN "mobile" ELSE "desktop"

\* the Client held in slot (id, r) of registry ss, NoClient when there is none
Slot(ss, id, r) ==
  IF id \notin DOMAIN ss THEN NoClient
  ELSE IF r = "desktop" THEN ss[id].desktop ELSE ss[id].mobile

\* the connection has been told `joined` and has neither left nor closed since
HasIdentity(c) == ctx[c] # NoCtx

Delivered(c, t, p, e) == [to |-> c, type |-> t, payload |-> p, error |-> e]
Count(o, c, t) == Cardinality({i \in DOMAIN o : o[i].to = c /\ o[i].type = t})

\* a `message` frame from c that carries c's own session_id and role
OwnMessage(c, raw) ==
  /\ last'.op = "message" /\ last'.c = c
  /\ OnMessage(c, raw)
  /\ HasIdentity(c)
  /\ raw.session_id = ctx[c].sessionId /\ raw.role = ctx[c].role

\* ---- C1 ----------------------------------------------------------------
\* C1: when C is joined as role r of session s and the opposite-role slot of
\* s holds P, a `message` frame from C with C's own session_id and role and
\* payload p makes P, and nobody else, receive exactly one frame
\* {type: "message", payload: p}.
C1_ForwardedToPeerOnly ==
  [][\A c \in Conns, raw \in RawFrames :
       (OwnMessage(c, raw) /\
        Slot(sessions, ctx[c].sessionId, Other(ctx[c].role)) # NoClient /\
        Slot(sessions, ctx[c].sessionId, Other(ctx[c].role)).socket # c)
       => out' = << Delivered(Slot(sessions, ctx[c].sessionId, Other(ctx[c].role)).socket,
                              "message", raw.payload, Undefined) >>]_vars

\* ---- C2 ----------------------------------------------------------------
\* C2: a `message` frame from a joined connection with matching
\* session_id/role is never silently dropped, whatever the state of the
\* peer's socket: the peer receives the forwarded `message` or the sender
\* receives an `error` frame.
C2_NeverSilentlyDropped ==
  [][\A c \in Conns, raw \in RawFrames :
       OwnMessage(c, raw)
       => \/ \E i \in DOMAIN out' :
               /\ out'[i].type = "message" /\ out'[i].payload = raw.payload
               /\ out'[i].to = Slot(sessions, ctx[c].sessionId, Other(ctx[c].role)).socket
          \/ \E i \in DOMAIN out' : out'[i].type = "error" /\ out'[i].to = c]_vars

\* ---- C3 ----------------------------------------------------------------
\* C3: when a connection joins (s, r) while a different, open connection
\* occupies slot (s, r), the previous occupant is evicted and told so: it
\* receives a frame or its socket is closed by the relay.
C3_DisplacedIsNotified ==
  [][\A c \in Conns, raw \in RawFrames :
       LET d == Slot(sessions, raw.session_id, raw.role).socket
       IN (last'.op = "join" /\ last'.c = c /\ OnJoin(c, raw) /\
           d # 0 /\ d # c /\ readyState[d] = "OPEN")
          => \/ \E i \in DOMAIN out' : out'[i].to = d
             \/ readyState'[d] # "OPEN"]_vars

\* ---- C4 ----------------------------------------------------------------
\* C4: whenever the router forwards a `message` frame from connection C as
\* role r of session s, C is the connection held in registry slot (s, r).
C4_ForwardOnlyForSlotHolder ==
  [][\A c \in Conns, raw \in RawFrames :
       (last'.op = "message" /\ last'.c = c /\ OnMessage(c, raw) /\
        \E i \in DOMAIN out' : out'[i].type = "message")
       => Slot(sessions, raw.session_id, raw.role).socket = c]_vars

\* ---- C5 ----------------------------------------------------------------
\* C5: when a connection joined as (s, r) closes without sending `leave`,
\* handling the close removes it from the registry and the opposite-role
\* member of s, if present with an open socket, receives `peer_left`.
C5_CloseIsImplicitLeave ==
  [][\A c \in Conns :
       (last'.op = "close" /\ last'.c = c /\ OnClose(c) /\ HasIdentity(c))
       => /\ \A id \in DOMAIN sessions' :
               sessions'[id].desktop.socket # c /\ sessions'[id].mobile.socket # c
          /\ LET peer == Slot(sessions, ctx[c].sessionId, Other(ctx[c].role))
             IN (peer # NoClient /\ readyState[peer.socket] = "OPEN")
                => out' = << Delivered(peer.socket, "peer_left", Undefined, Undefined) >>]_vars

\* ---- C6 ----------------------------------------------------------------
\* C6: once the close of a connection has been handled, no slot of any
\* session references that connection, whatever session_id it joined with.
C6_ClosedNotInRegistry ==
  \A c \in Conns : readyState[c] = "CLOSED" => ~InRegistry(c)

\* ---- C7 ----------------------------------------------------------------
\* C7: after any sequence of operations the registry contains no session
\* whose desktop and mobile slots are both empty.
C7_NoEmptySession ==
  \A id \in DOMAIN sessions :
    sessions[id].desktop # NoClient \/ sessions[id].mobile # NoClient

\* a leave has just emptied the registry that joins had filled
C7_Witness ==
  /\ last.op = "leave" /\ ctx[last.c] = NoCtx
  /\ joins >= 2
  /\ DOMAIN sessions = {}

\* ---- C8 ----------------------------------------------------------------
\* C8 as claimed: on every `join` frame for (s, r) the joiner is registered
\* in slot (s, r) and receives exactly one `joined`; the connection in the
\* opposite-role slot of s receives `peer_joined` iff that slot is occupied
\* at the moment of the join; nobody receives anything else.
C8_JoinNotifications ==
  [][\A c \in Conns, raw \in RawFrames :
       (last'.op = "join" /\ last'.c = c /\ OnJoin(c, raw))
       => LET opp == Slot(sessions, raw.session_id, Other(raw.role))
          IN /\ Slot(sessions', raw.session_id, raw.role).socket = c
             /\ out' = << Delivered(c, "joined", Undefined, Undefined) >> \o
                       (IF opp # NoClient
                          THEN << Delivered(opp.socket, "peer_joined", Undefined, Undefined) >>
                          ELSE << >>)]_vars

\* C8 amended: on every `join` frame for (s, r) the joiner is registered in
\* slot (s, r) and receives exactly one `joined`; a connection receives
\* `peer_joined` (once) iff it holds the opposite-role slot of s once the
\* joiner's implicit leave of its previous slot is done and its socket is
\* open; the only other frame sent is at most one `peer_left`, to the
\* joiner's previous peer.
C8_JoinNotificationsAmended ==
  [][\A c \in Conns, raw \in RawFrames :
       (last'.op = "join" /\ last'.c = c /\ OnJoin(c, raw))
       => LET opp == Slot(sessions', raw.session_id, Other(raw.role))
              old == Slot(sessions, ctx[c].sessionId, Other(ctx[c].role))
              rest == SelectSeq(out', LAMBDA f : f.type \notin {"joined", "peer_joined"})
          IN /\ Slot(sessions', raw.session_id, raw.role).socket = c
             /\ \A d \in Conns :
                  /\ Count(out', d, "joined") = (IF d = c THEN 1 ELSE 0)
                  /\ Count(out', d, "peer_joined") =
                       (IF opp.socket = d /\ readyState[d] = "OPEN" THEN 1 ELSE 0)
             /\ \/ rest = << >>
                \/ /\ rest = << Delivered(old.socket, "peer_left", Undefined, Undefined) >>
                   /\ old # NoClient
                   /\ rest = SubSeq(out', 1, 1)]_vars

\* a join that found an open peer in the opposite slot
C8_Witness ==
  /\ last.op = "join"
  /\ Len(out) = 2
  /\ out[1] = Delivered(last.c, "joined", Undefined, Undefined)
  /\ out[2].type = "peer_joined" /\ out[2].to # last.c
  /\ Slot(sessions, ctx[last.c].sessionId, Other(ctx[last.c].role)).socket = out[2].to

\* ---- C9 ----------------------------------------------------------------
\* C9: a `join` from a connection that is already joined to (s1, r1) first
\* leaves (s1, r1); afterwards the connection is registered in exactly the
\* requested slot (s2, r2).
C9_RejoinLeavesFirst ==
  [][\A c \in Conns, raw \in RawFrames :
       (last'.op = "join" /\ last'.c = c /\ OnJoin(c, raw) /\ HasIdentity(c))
       => \A id \in SessionIds, r \in Roles :
            (Slot(sessions', id, r).socket = c)
              <=> (id = raw.session_id /\ r = raw.role)]_vars

\* ---- C10 ---------------------------------------------------------------
\* C10: a `message` frame whose session_id or role differs from the
\* identity the connection joined with is answered with
\* {type: "error", error: "Session/role mismatch"}; nothing is forwarded and
\* the registry and the context are unchanged.
C10_MismatchRejected ==
  [][\A c \in Conns, raw \in RawFrames :
       (last'.op = "message" /\ last'.c = c /\ OnMessage(c, raw) /\ HasIdentity(c) /\
        (raw.session_id # ctx[c].sessionId \/ raw.role # ctx[c].role))
       => /\ out' = << Delivered(c, "error", Undefined, "Session/role mismatch") >>
          /\ sessions' = sessions
          /\ ctx' = ctx]_vars

\* ---- C11 ---------------------------------------------------------------
\* C11: a `message` or `leave` frame from a connection that is not joined
\* (its context is the unjoined one) is answered with exactly
\* {type: "error", error: "Not joined to a session"}; the connection stays
\* open, nothing is forwarded, registry and contexts are unchanged.
C11_NotJoinedRejected ==
  [][\A c \in Conns, raw \in RawFrames :
       (last'.c = c /\ ~HasIdentity(c) /\
        \/ last'.op = "message" /\ OnMessage(c, raw)
        \/ last'.op = "leave" /\ OnLeave(c, raw))
       => /\ out' = << Delivered(c, "error", Undefined, "Not joined to a session") >>
          /\ sessions' = sessions
          /\ ctx' = ctx
          /\ readyState' = readyState]_vars

\* an unjoined connection has just been refused while the registry holds a
\* session of somebody else
C11_Witness ==
  /\ last.op \in {"message", "leave"}
  /\ ctx[last.c] = NoCtx /\ readyState[last.c] = "OPEN"
  /\ out = << Delivered(last.c, "error", Undefined, "Not joined to a session") >>
  /\ DOMAIN sessions # {}

\* ---- C12 ---------------------------------------------------------------
\* C12: an explicit `leave` from a joined connection removes it from its
\* slot, makes the opposite-role member (if present, socket open) receive
\* `peer_left`, and resets the connection's context to the unjoined one (so
\* that a later `message` is refused as not joined and a later `join` is an
\* ordinary first join).
C12_LeaveResets ==
  [][\A c \in Conns, raw \in RawFrames :
       (last'.op = "leave" /\ last'.c = c /\ OnLeave(c, raw) /\ HasIdentity(c))
       => /\ Slot(sessions', ctx[c].sessionId, ctx[c].role).socket # c
          /\ ctx'[c] = NoCtx
          /\ LET peer == Slot(sessions, ctx[c].sessionId, Other(ctx[c].role))
             IN (peer # NoClient /\ readyState[peer.socket] = "OPEN")
                => out' = << Delivered(peer.socket, "peer_left", Undefined, Undefined) >>]_vars

\* ---- C13 ---------------------------------------------------------------
\* C13: every well-formed `ping` frame is answered with exactly one `pong`
\* to the sender, joined or not; when the sender is joined and holds its
\* slot, its client's lastHeartbeat becomes the current time; a ping from
\* an unjoined connection leaves the registry unchanged.
C13_PingPong ==
  [][\A c \in Conns, raw \in RawFrames :
       (last'.op = "ping" /\ last'.c = c /\ OnPing(c, raw))
       => /\ out' = << Delivered(c, "pong", Undefined, Undefined) >>
          /\ (HasIdentity(c) /\ Slot(sessions, ctx[c].sessionId, ctx[c].role).socket = c)
             => Slot(sessions', ctx[c].sessionId, ctx[c].role).lastHeartbeat = now
          /\ ~HasIdentity(c) => sessions' = sessions]_vars

\* ---- C14 ---------------------------------------------------------------
\* the malformed frames of the claim: not JSON or not an object, session_id
\* not a string, role not desktop/mobile, type not one of the four kinds
Malformed(raw) ==
  \/ ~raw.json
  \/ raw.session_id = NULL
  \/ raw.role \notin Roles
  \/ raw.type \notin FrameTypes

\* C14: a malformed inbound frame is refused by the parser, and serving it
\* sends exactly one `error` frame to the sender, leaves every socket as it
\* is, and changes neither the registry nor any context.
C14_MalformedRejected ==
  [][\A c \in Conns, raw \in RawFrames :
       Malformed(raw)
       => /\ parseMessage(raw) = NoMessage
          /\ (last'.op = "invalid" /\ last'.c = c /\ OnInvalid(c, raw))
             => /\ Len(out') = 1
                /\ out'[1].type = "error" /\ out'[1].to = c
                /\ sessions' = sessions
                /\ ctx' = ctx
                /\ readyState' = readyState]_vars

\* a joined connection has just had a malformed frame refused
C14_Witness ==
  /\ last.op = "invalid"
  /\ out = << Delivered(last.c, "error", Undefined, "Invalid message format") >>
  /\ HasIdentity(last.c) /\ InRegistry(last.c)
  /\ readyState[last.c] = "OPEN"

\* ---- C15 ---------------------------------------------------------------
\* the connections held in the slots of the sessions a sweep removed
SweptClients == 
  {c \in Conns : \E id \in DOMAIN sessions \ DOMAIN sessions' :
                   sessions[id].desktop.socket = c \/ sessions[id].mobile.socket = c}

\* C15 as claimed: a sweep at time `now` removes every session whose
\* expiresAt <= now and no session whose expiresAt is later, closes the
\* client connections of each removed session, and returns the number of
\* sessions removed.
C15_SweepRemovesExpired ==
  [][(last'.op = "sweep" /\ Sweep)
     => /\ \A id \in DOMAIN sessions :
             id \notin DOMAIN sessions' <=> sessions[id].expiresAt <= now
        /\ \A id \in DOMAIN sessions' : id \in DOMAIN sessions /\ sessions'[id] = sessions[id]
        /\ \A c \in SweptClients : readyState'[c] # "OPEN"
        /\ cleanupExpired(sessions).cleaned
             = Cardinality(DOMAIN sessions \ DOMAIN sessions')]_vars

\* C15 amended: a sweep at time `now` removes every session whose
\* expiresAt < now and no session whose expiresAt is `now` or later, closes
\* every client connection of a removed session whose socket is open (and
\* no other connection), leaves the remaining sessions as they are, and
\* returns the number of sessions removed.
C15_SweepRemovesExpiredAmended ==
  [][(last'.op = "sweep" /\ Sweep)
     => /\ \A id \in DOMAIN sessions :
             id \notin DOMAIN sessions' <=> sessions[id].expiresAt < now
        /\ \A id \in DOMAIN sessions' : id \in DOMAIN sessions /\ sessions'[id] = sessions[id]
        /\ \A c \in Conns :
             readyState'[c] = IF c \in SweptClients /\ readyState[c] = "OPEN"
                                THEN "CLOSING" ELSE readyState[c]
        /\ cleanupExpired(sessions).cleaned
             = Cardinality(DOMAIN sessions \ DOMAIN sessions')]_vars

\* a sweep has just removed a session and closed both of its members
C15_Witness ==
  /\ last.op = "sweep"
  /\ \E c, d \in Conns :
       /\ c # d
       /\ readyState[c] = "CLOSING" /\ readyState[d] = "CLOSING"
       /\ HasIdentity(c) /\ HasIdentity(d)
       /\ ctx[c].sessionId = ctx[d].sessionId /\ ctx[c].role = Other(ctx[d].role)
       /\ ctx[c].sessionId \notin DOMAIN sessions

\* ---- C16 ---------------------------------------------------------------
\* C16: under fairness of the sweep timer and of the clock, a session whose
\* expiry is not extended any more (no further join or heartbeat) is
\* eventually deleted from the registry; no client step is needed.  Expiry
\* times the bounded clock can pass are 1..MaxTime-1.
C16_AbandonedReclaimed ==
  \A id \in SessionIds, e \in 1..(MaxTime - 1) :
    (id \in DOMAIN sessions /\ sessions[id].expiresAt = e)
      ~> (id \notin DOMAIN sessions \/ sessions[id].expiresAt # e)

\* the sweep has just emptied the registry and closed a member that never left
C16_Witness ==
  /\ last.op = "sweep"
  /\ DOMAIN sessions = {}
  /\ now > sessionTtlMs
  /\ \E c \in Conns : HasIdentity(c) /\ readyState[c] = "CLOSING"

\* ---- C17 ---------------------------------------------------------------
\* C17: for every session, as long as it exists in the registry, its
\* expiresAt never decreases across any step (join, message, ping, leave,
\* close, sweep, clock tick).
C17_ExpiryMonotone ==
  [][\A id \in DOMAIN sessions \cap DOMAIN sessions' :
       sessions'[id].expiresAt >= sessions[id].expiresAt]_vars

\* a ping has just moved forward the expiry of a session that is older than
\* the current instant (its other member was last heard of earlier)
C17_Witness ==
  /\ last.op = "ping" /\ HasIdentity(last.c)
  /\ LET id == ctx[last.c].sessionId
         r == ctx[last.c].role
     IN /\ id \in DOMAIN sessions
        /\ Slot(sessions, id, r).socket = last.c
        /\ sessions[id].expiresAt = now + sessionTtlMs
        /\ Slot(sessions, id, Other(r)) # NoClient
        /\ Slot(sessions, id, Other(r)).lastHeartbeat < now

\* ---- C18 ---------------------------------------------------------------
\* C18: every `join` to session s, and every `ping` from a connection that
\* is joined to s and holds its slot, served at time t, leaves s with
\* expiresAt = t + TTL.
C18_ExpiryExtended ==
  [][\A c \in Conns, raw \in RawFrames :
       /\ (last'.op = "join" /\ last'.c = c /\ OnJoin(c, raw))
          => /\ raw.session_id \in DOMAIN sessions'
             /\ sessions'[raw.session_id].expiresAt = now + sessionTtlMs
       /\ (last'.op = "ping" /\ last'.c = c /\ OnPing(c, raw) /\ HasIdentity(c) /\
           Slot(sessions, ctx[c].sessionId, ctx[c].role).socket = c)
          => /\ ctx[c].sessionId \in DOMAIN sessions'
             /\ sessions'[ctx[c].sessionId].expiresAt = now + sessionTtlMs]_vars

\* ---- C19 ---------------------------------------------------------------
\* C19: starting from any registry the relay can be in, after
\* addClient(id, desktop c1) and addClient(id, mobile c2) in either order,
\* getPeer(id, "desktop") is c2's client and getPeer(id, "mobile") is c1's;
\* removeClient returns the client that occupied the slot, or none when the
\* slot or the session is empty; after removeClient for both roles the
\* session is absent.
C19_PeerLookup ==
  \A id \in SessionIds, c1, c2 \in Conns :
    LET desk == [socket |-> c1, role |-> "desktop", lastHeartbeat |-> now]
        mob == [socket |-> c2, role |-> "mobile", lastHeartbeat |-> now]
        dm == addClient(addClient(sessions, id, desk).sessions, id, mob).sessions
        md == addClient(addClient(sessions, id, mob).sessions, id, desk).sessions
    IN \A ss \in {dm, md} :
         LET r1 == removeClient(ss, id, "desktop")
             r2 == removeClient(r1.sessions, id, "mobile")
         IN /\ getPeer(ss, id, "desktop") = mob
            /\ getPeer(ss, id, "mobile") = desk
            /\ r1.client = desk
            /\ id \in DOMAIN r1.sessions
            /\ removeClient(r1.sessions, id, "desktop").client = NoClient
            /\ r2.client = mob
            /\ id \notin DOMAIN r2.sessions
            /\ removeClient(r2.sessions, id, "mobile").client = NoClient

\* two joins have filled both slots of a session with different connections
C19_Witness ==
  /\ last.op = "join"
  /\ \E id \in DOMAIN sessions :
       /\ sessions[id].desktop # NoClient /\ sessions[id].mobile # NoClient
       /\ sessions[id].desktop.socket # sessions[id].mobile.socket
       /\ getPeer(sessions, id, "desktop") = sessions[id].mobile
       /\ getPeer(sessions, id, "mobile") = sessions[id].desktop

\* ---- C20 ---------------------------------------------------------------
\* C20: delivery is at-most-once with no queueing: a `message` frame
\* reaches a socket only in the step that serves an inbound `message`
\* frame, that step delivers exactly one frame, carrying the payload of the
\* frame being served; no later step (a join of the missing peer included)
\* delivers a frame that was answered with an error.
C20_AtMostOnce ==
  [][(\E i \in DOMAIN out' : out'[i].type = "message")
     => /\ last'.op = "message"
        /\ Len(out') = 1
        /\ \E raw \in RawFrames :
             OnMessage(last'.c, raw) /\ out'[1].payload = raw.payload]_vars

\* a frame has just been forwarded, once, to the other connection
C20_Witness ==
  /\ last.op = "message"
  /\ Len(out) = 1
  /\ out[1].type = "message" /\ out[1].payload \in Payloads
  /\ out[1].to # last.c
  /\ Slot(sessions, ctx[last.c].sessionId, Other(ctx[last.c].role)).socket = out[1].to

C22_BlindRelay ==
  \A c \in Conns, r1, r2 \in RawFrames :
    (r1.type = "message" /\ r2.type = "message" /\
     r1.json /\ r2.json /\ r1.session_id = r2.session_id /\ r1.role = r2.role)
    => LET m1 == parseMessage(r1)
           m2 == parseMessage(r2)
           a == handleMessage(c, m1)
           b == handleMessage(c, m2)
       IN /\ [m1 EXCEPT !.payload = Undefined] = [m2 EXCEPT !.payload = Undefined]
          /\ m1.payload = r1.payload /\ m2.payload = r2.payload
          /\ a.sessions = b.sessions /\ a.ctx = b.ctx
          /\ handleMessageLog(c, m1) = handleMessageLog(c, m2)
          /\ Len(a.out) = Len(b.out)
          /\ \A i \in DOMAIN a.out :
               /\ a.out[i].to = b.out[i].to
               /\ a.out[i].type = b.out[i].type
               /\ a.out[i].error = b.out[i].error
               /\ IF a.out[i].type = "message"
                    THEN a.out[i].payload = r1.payload /\ b.out[i].payload = r2.payload
                    ELSE a.out[i].payload = b.out[i].payload

\* a connection whose frames are forwarded: two payloads give two outputs
C22_Witness ==
  \E c \in Conns, r1, r2 \in RawFrames :
    /\ r1.type = "message" /\ r2.type = "message"
    /\ r1.session_id = r2.session_id /\ r1.role = r2.role
    /\ r1.payload # r2.payload
    /\ Served(c)
    /\ handleMessage(c, parseMessage(r1)).out # handleMessage(c, parseMessage(r2)).out
    /\ handleMessageLog(c, parseMessage(r1)) # NoLog

\* ========================================================================
\* packages/core/src/crypto.ts: wrappers around TweetNaCl
\* ========================================================================
\* ---- bounds ------------------------------------------------------------
NSeeds == 3       \* random seeds of honest key pairs
NNonces == 2      \* values generateNonce() can return
NPlain == 2       \* plaintexts

\* ---- TweetNaCl, scaled -------------------------------------------------
\* A byte array is [len, v]: its length and a number standing for its
\* content.  Contents of different kinds live in different ranges, as
\* independent random byte strings do not coincide.  Curve25519 is scaled to
\* the subgroup of prime order GroupQ of the integers modulo GroupP,
\* generated by GroupG.
GroupP == 23
GroupQ == 11
GroupG == 2
KeyLength == 32        \* nacl.box.publicKeyLength, secretKeyLength, sharedKeyLength
NonceLength == 24      \* nacl.box.nonceLength
OverheadLength == 16   \* nacl.box.overheadLength (the authenticator)
PlainLength == 5

Bytes(len, v) == [len |-> len, v |-> v]
NoBytes == Bytes(0, 0)
SecretBase == 0
PublicBase == 100
SharedBase == 200
NonceBase == 300
PlainBase == 400

\* what a call gives: a value, null, or a thrown Error
Ok(x) == [tag |-> "ok", val |-> x]
Null == [tag |-> "null", val |-> NoBytes]
Thrown == [tag |-> "throw", val |-> NoBytes]

RECURSIVE ModExp(_, _)
ModExp(b, e) == IF e = 0 THEN 1 ELSE (b * ModExp(b, e - 1)) % GroupP

\* the scalar and the group element a byte array is read as
Scalar(x) == x.v % GroupQ
Point(x) == (x.v - PublicBase) % GroupP

\* nacl.scalarMult.base
nacl_scalarMult_base(sk) == Bytes(KeyLength, PublicBase + ModExp(GroupG, Scalar(sk)))

\* nacl.box.before(publicKey, secretKey): checkBoxLengths, scalar
\* multiplication, then a hash of the resulting point
nacl_box_before(pk, sk) ==
  IF pk.len # KeyLength \/ sk.len # KeyLength THEN Thrown
  ELSE Ok(Bytes(KeyLength, SharedBase + ModExp(Point(pk), Scalar(sk))))

\* the key stream and the authenticator of nacl.secretbox
Stream(nonce, key) == (3 * nonce.v + 5 * key.v) % NPlain
Mac(body, nonce, key) == << key.v, nonce.v, body >>

\* nacl.box.after = nacl.secretbox(msg, nonce, key)
nacl_box_after(msg, nonce, key) ==
  IF key.len # KeyLength \/ nonce.len # NonceLength THEN Thrown
  ELSE LET body == (msg.v - PlainBase + Stream(nonce, key)) % NPlain
       IN Ok([len |-> msg.len + OverheadLength, body |-> body,
              mac |-> Mac(body, nonce, key)])

\* nacl.box.open.after = nacl.secretbox.open(box, nonce, key)
nacl_box_open_after(box, nonce, key) ==
  IF key.len # KeyLength \/ nonce.len # NonceLength THEN Thrown
  ELSE IF box.len < OverheadLength THEN Null
  ELSE IF box.mac # Mac(box.body, nonce, key) THEN Null
  ELSE Ok(Bytes(box.len - OverheadLength,
                PlainBase + ((box.body - Stream(nonce, key)) % NPlain)))

\* naclUtil.encodeBase64 / decodeBase64: bytes to text and back
naclUtil_encodeBase64(x) == [base64 |-> x]
naclUtil_decodeBase64(t) == t.base64

\* ---- crypto.ts ---------------------------------------------------------
Seeds == 1..NSeeds
Nonces == {Bytes(NonceLength, NonceBase + i) : i \in 1..NNonces}
Plaintexts == {Bytes(PlainLength, PlainBase + i) : i \in 0..(NPlain - 1)}

\* generateKeyPair that hands out the secret key as the public key
generateKeyPair_SecretAsPublic(seed) ==
  LET sk == Bytes(KeyLength, SecretBase + seed)
  IN [publicKey |-> sk, secretKey |-> sk]

\* generateKeyPair(): nacl.box.keyPair() on `seed` random bytes
generateKeyPair(seed) ==
  LET sk == Bytes(KeyLength, SecretBase + seed)
  IN [publicKey |-> nacl_scalarMult_base(sk), secretKey |-> sk]

\* deriveSharedSecret with the two arguments of nacl.box.before exchanged
deriveSharedSecret_SwappedArgs(ourSecretKey, theirPublicKey) ==
  nacl_box_before(ourSecretKey, theirPublicKey)

deriveSharedSecret(ourSecretKey, theirPublicKey) ==
  nacl_box_before(theirPublicKey, ourSecretKey)

\* encrypt(): `nonce` is what generateNonce() returned
encrypt(message, sharedSecret, nonce) ==
  LET ciphertext == nacl_box_after(message, nonce, sharedSecret)
  IN IF ciphertext.tag # "ok" THEN Thrown
     ELSE [tag |-> "ok", val |-> [ciphertext |-> ciphertext.val, nonce |-> nonce]]

decrypt(ciphertext, nonce, sharedSecret) ==
  nacl_box_open_after(ciphertext, nonce, sharedSecret)

\* serializeEncryptedMessage with the two fields exchanged
serializeEncryptedMessage_Swapped(encrypted) ==
  [ciphertext |-> naclUtil_encodeBase64(encrypted.nonce),
   nonce |-> naclUtil_encodeBase64(encrypted.ciphertext)]

serializeEncryptedMessage(encrypted) ==
  [ciphertext |-> naclUtil_encodeBase64(encrypted.ciphertext),
   nonce |-> naclUtil_encodeBase64(encrypted.nonce)]

deserializeEncryptedMessage(serialized) ==
  [ciphertext |-> naclUtil_decodeBase64(serialized.ciphertext),
   nonce |-> naclUtil_decodeBase64(serialized.nonce)]

\* ---- the pairing scenario ----------------------------------------------
\* Desktop and mobile generate key pairs; the desktop's public key reaches
\* the mobile out of band, the mobile's public key reaches the desktop in a
\* handshake_response relayed as a `message` payload; one side encrypts a
\* plaintext into an envelope, also relayed; the other side decrypts what
\* it is given, which may differ from what was sent.
NoPair == [publicKey |-> NoBytes, secretKey |-> NoBytes]
NoBox == [len |-> 0, body |-> 0, mac |-> << 0, 0, 0 >>]
NoResponse == [type |-> NULL, sessionId |-> NULL,
               mobilePublicKey |-> naclUtil_encodeBase64(NoBytes)]
NoEnvelope == [sessionId |-> NULL, sender |-> NULL,
               ciphertext |-> naclUtil_encodeBase64(NoBox),
               nonce |-> naclUtil_encodeBase64(NoBytes), timestamp |-> 0]

Mismatches == {"none", "secret", "secretLength", "nonce", "nonceLength",
               "ciphertext", "authenticator", "truncated"}

KxStart ==
  [stage |-> "start", desktop |-> NoPair, mobile |-> NoPair,
   deskShared |-> Null, mobShared |-> Null,
   response |-> NoResponse, envelope |-> NoEnvelope,
   plain |-> NoBytes, sender |-> NULL, mismatch |-> "none", result |-> Null]

KxGenerate(a, b) ==
  /\ kx.stage = "start"
  /\ kx' = [kx EXCEPT !.stage = "keys",
                      !.desktop = generateKeyPair(a),
                      !.mobile = generateKeyPair(b)]
  /\ UNCHANGED <<relayVars, qr, val, task, cmp>>

KxPair ==
  /\ kx.stage = "keys"
  /\ LET response == [type |-> "handshake_response", sessionId |-> "S1",
                      mobilePublicKey |-> naclUtil_encodeBase64(kx.mobile.publicKey)]
     IN kx' = [kx EXCEPT
                 !.stage = "paired",
                 !.mobShared = deriveSharedSecret(kx.mobile.secretKey, kx.desktop.publicKey),
                 !.response = response,
                 !.deskShared = deriveSharedSecret(kx.desktop.secretKey,
                                  naclUtil_decodeBase64(response.mobilePublicKey))]
  /\ UNCHANGED <<relayVars, qr, val, task, cmp>>

KxSend(role, m, n) ==
  /\ kx.stage = "paired"
  /\ LET secret == IF role = "desktop" THEN kx.deskShared ELSE kx.mobShared
         enc == encrypt(m, secret.val, n)
     IN /\ secret.tag = "ok" /\ enc.tag = "ok"
        /\ kx' = [kx EXCEPT
                    !.stage = "sent", !.plain = m, !.sender = role,
                    !.envelope = [sessionId |-> "S1", sender |-> role,
                                  ciphertext |-> serializeEncryptedMessage(enc.val).ciphertext,
                                  nonce |-> serializeEncryptedMessage(enc.val).nonce,
                                  timestamp |-> 1]]
  /\ UNCHANGED <<relayVars, qr, val, task, cmp>>

\* what the receiver hands to decrypt when its input differs in `how`
Mismatched(how, enc, secret) ==
  [ciphertext |->
     CASE how = "ciphertext" -> [enc.ciphertext EXCEPT !.body = (@ + 1) % NPlain]
       [] how = "authenticator" -> [enc.ciphertext EXCEPT !.mac = << 0, 0, 0 >>]
       [] how = "truncated" -> [enc.ciphertext EXCEPT !.len = OverheadLength - 1]
       [] OTHER -> enc.ciphertext,
   nonce |->
     CASE how = "nonce" -> Bytes(NonceLength, NonceBase + ((enc.nonce.v - NonceBase) % NNonces) + 1)
       [] how = "nonceLength" -> Bytes(NonceLength - 1, enc.nonce.v)
       [] OTHER -> enc.nonce,
   secret |->
     CASE how = "secret" -> Bytes(KeyLength, SharedBase + ((secret.v - SharedBase) % (GroupP - 1)) + 1)
       [] how = "secretLength" -> Bytes(KeyLength - 1, secret.v)
       [] OTHER -> secret]

KxReceive(how) ==
  /\ kx.stage = "sent"
  /\ LET secret == IF kx.sender = "desktop" THEN kx.mobShared ELSE kx.deskShared
         enc == deserializeEncryptedMessage([ciphertext |-> kx.envelope.ciphertext,
                                             nonce |-> kx.envelope.nonce])
         given == Mismatched(how, enc, secret.val)
     IN /\ secret.tag = "ok"
        /\ kx' = [kx EXCEPT !.stage = "received", !.mismatch = how,
                            !.result = decrypt(given.ciphertext, given.nonce, given.secret)]
  /\ UNCHANGED <<relayVars, qr, val, task, cmp>>

CryptoInit ==
  /\ sessions = << >>
  /\ ctx = [c \in Conns |-> NoCtx]
  /\ readyState = [c \in Conns |-> "OPEN"]
  /\ now = 0
  /\ out = << >>
  /\ last = Event("init", 0)
  /\ joins = 0
  /\ trace = NoTrace
  /\ kx = KxStart /\ qr = Off /\ val = Off /\ task = Off /\ cmp = Off

CryptoNext ==
  \/ \E a, b \in Seeds : KxGenerate(a, b)
  \/ KxPair
  \/ \E role \in Roles, m \in Plaintexts, n \in Nonces : KxSend(role, m, n)
  \/ \E how \in Mismatches : KxReceive(how)

CryptoSpec == CryptoInit /\ [][CryptoNext]_vars

\* ---- C23 ---------------------------------------------------------------
\* what passes through the relay, the secrets of the two ends, and what the
\* relay can compute: it sees the frames (and the desktop's public key,
\* which is not secret), generates key pairs of its own, and applies
\* deriveSharedSecret and decrypt to what it has
RelaySeeds == (NSeeds + 1)..(NSeeds + 2)
FrameBytes ==
  {naclUtil_decodeBase64(kx.response.mobilePublicKey),
   naclUtil_decodeBase64(kx.envelope.nonce)}
EndSecrets ==
  {kx.desktop.secretKey, kx.mobile.secretKey, kx.deskShared.val, kx.mobShared.val}
RelayKeys ==
  FrameBytes \cup {kx.desktop.publicKey} \cup
  {deriveSharedSecret(generateKeyPair(e).secretKey, pk).val :
     e \in RelaySeeds, pk \in {kx.desktop.publicKey, kx.mobile.publicKey}}

\* C23: in the pairing flow desktop and mobile end with the same shared
\* secret; no secret key and no shared secret is carried by a frame that
\* passes through the relay; nothing the relay can compute from what it
\* sees is the shared secret or opens the envelope.
C23_PairingSecrecy ==
  kx.stage \in {"paired", "sent", "received"}
  => /\ kx.deskShared.tag = "ok" /\ kx.deskShared = kx.mobShared
     /\ FrameBytes \cap EndSecrets = {}
     /\ RelayKeys \cap EndSecrets = {}
     /\ kx.stage # "paired"
        => \A k \in RelayKeys :
             decrypt(naclUtil_decodeBase64(kx.envelope.ciphertext),
                     naclUtil_decodeBase64(kx.envelope.nonce), k).tag # "ok"

\* two different key pairs are paired and an envelope is in the relay
C23_Witness ==
  /\ kx.stage = "sent"
  /\ kx.desktop.secretKey # kx.mobile.secretKey
  /\ kx.deskShared.tag = "ok" /\ kx.deskShared = kx.mobShared
  /\ kx.envelope.sender \in Roles
  /\ kx.response.type = "handshake_response"

\* ---- C24 ---------------------------------------------------------------
\* C24: for all key pairs A and B, deriveSharedSecret(A.secretKey,
\* B.publicKey) = deriveSharedSecret(B.secretKey, A.publicKey); for key
\* pairs A, B, C with B different from C the secrets of (A, B) and (A, C)
\* differ.  (A and B are the key pairs the two ends generated, C any other.)
C24_SharedSecretAgrees ==
  kx.stage # "start" =>
  \A c \in Seeds :
    LET A == kx.desktop
        B == kx.mobile
        C == generateKeyPair(c)
    IN /\ deriveSharedSecret(A.secretKey, B.publicKey).tag = "ok"
       /\ deriveSharedSecret(A.secretKey, B.publicKey)
            = deriveSharedSecret(B.secretKey, A.publicKey)
       /\ B # C => deriveSharedSecret(A.secretKey, B.publicKey)
                     # deriveSharedSecret(A.secretKey, C.publicKey)

\* both ends of a pairing of two different key pairs have derived a secret
C24_Witness ==
  /\ kx.stage = "paired"
  /\ kx.desktop # kx.mobile
  /\ kx.mobShared = deriveSharedSecret(kx.mobile.secretKey, kx.desktop.publicKey)
  /\ kx.deskShared = deriveSharedSecret(kx.desktop.secretKey, kx.mobile.publicKey)
  /\ kx.mobShared.tag = "ok"

\* ---- C25 ---------------------------------------------------------------
\* C25: encryption round-trips: for the plaintext m and the shared secret s
\* of the sender, decrypt(c, n, s) = m where {ciphertext: c, nonce: n} =
\* encrypt(m, s), directly and after the encrypted message went through
\* serializeEncryptedMessage and deserializeEncryptedMessage (the envelope).
C25_RoundTrip ==
  kx.stage \in {"sent", "received"}
  => LET secret == (IF kx.sender = "desktop" THEN kx.deskShared ELSE kx.mobShared).val
         n == naclUtil_decodeBase64(kx.envelope.nonce)
         enc == encrypt(kx.plain, secret, n)
         back == deserializeEncryptedMessage(serializeEncryptedMessage(enc.val))
     IN /\ enc.tag = "ok" /\ enc.val.nonce = n
        /\ decrypt(enc.val.ciphertext, enc.val.nonce, secret) = Ok(kx.plain)
        /\ decrypt(back.ciphertext, back.nonce, secret) = Ok(kx.plain)
        /\ (kx.stage = "received" /\ kx.mismatch = "none") => kx.result = Ok(kx.plain)

\* the receiver has decrypted the envelope it was sent
C25_Witness ==
  /\ kx.stage = "received" /\ kx.mismatch = "none"
  /\ kx.plain \in Plaintexts
  /\ kx.result = Ok(kx.plain)

\* ---- C26 ---------------------------------------------------------------
\* C26: decrypt called with a shared secret, nonce or ciphertext that does
\* not match the ones used for encryption returns null: it does not throw
\* and does not return a plaintext.
C26_MismatchIsNull ==
  (kx.stage = "received" /\ kx.mismatch # "none") => kx.result = Null

(***************************************************************************)
(* JavaScript values, JSON text and zod schemas (packages/core).            *)
(* A string is the sequence of its parts, so that emptiness, the shape of   *)
(* a URL and truncation are computed; a number is a fraction n/d; an        *)
(* object is the sequence of its <<key, value>> members in insertion order. *)
(***************************************************************************)
JsVal(t, s, n, d) == [t |-> t, s |-> s, n |-> n, d |-> d]
Str(s) == JsVal("string", s, 0, 1)
Num(n, d) == JsVal("number", << >>, n, d)
Bool(b) == JsVal("boolean", IF b THEN <<"true">> ELSE <<"false">>, 0, 1)
Obj == JsVal("object", << >>, 0, 1)
Key(name) == <<name>>

Has(obj, name) == \E i \in 1..Len(obj) : obj[i][1] = Key(name)
Undef == JsVal("undefined", << >>, 0, 1)
Get(obj, name) ==
  IF Has(obj, name) THEN obj[CHOOSE i \in 1..Len(obj) : obj[i][1] = Key(name)][2] ELSE Undef
Without(obj, name) == SelectSeq(obj, LAMBDA m : m[1] # Key(name))
With(obj, name, v) ==
  IF Has(obj, name)
    THEN [i \in 1..Len(obj) |-> IF obj[i][1] = Key(name) THEN <<Key(name), v>> ELSE obj[i]]
    ELSE Append(obj, <<Key(name), v>>)

\* JSON text is the sequence of its tokens
Punct(x) == [p |-> x, s |-> << >>, n |-> 0, d |-> 1]
Lit(s) == [p |-> "str", s |-> s, n |-> 0, d |-> 1]
NumTok(n, d) == [p |-> "num", s |-> << >>, n |-> n, d |-> d]
Token(v) == IF v.t = "string" THEN Lit(v.s) ELSE NumTok(v.n, v.d)
Value(tok) == IF tok.p = "str" THEN Str(tok.s) ELSE Num(tok.n, tok.d)

RECURSIVE JSON_members(_, _)
JSON_members(obj, i) ==
  IF i > Len(obj) THEN << >>
  ELSE (IF i > 1 THEN <<Punct(",")>> ELSE << >>)
       \o <<Lit(obj[i][1]), Punct(":"), Token(obj[i][2])>>
       \o JSON_members(obj, i + 1)

JSON_stringify(obj) == <<Punct("{")>> \o JSON_members(obj, 1) \o <<Punct("}")>>

RECURSIVE JSON_parseMembers(_, _, _)
JSON_parseMembers(toks, i, acc) ==
  IF i + 3 > Len(toks) THEN Thrown
  ELSE IF \/ toks[i].p # "str"
          \/ toks[i + 1] # Punct(":")
          \/ toks[i + 2].p \notin {"str", "num"}
    THEN Thrown
  ELSE LET members == With(acc, toks[i].s[1], Value(toks[i + 2]))
       IN  IF toks[i + 3] = Punct("}")
             THEN IF i + 3 = Len(toks) THEN Ok(members) ELSE Thrown
           ELSE IF toks[i + 3] = Punct(",")
             THEN JSON_parseMembers(toks, i + 4, members)
           ELSE Thrown

JSON_parse(toks) ==
  IF Len(toks) < 2 \/ toks[1] # Punct("{") THEN Thrown
  ELSE IF toks[2] = Punct("}") THEN (IF Len(toks) = 2 THEN Ok(<< >>) ELSE Thrown)
  ELSE JSON_parseMembers(toks, 2, << >>)

\* new URL(s) succeeds: a scheme, "://" and a non-empty host, then any path
Schemes == {"ws", "wss", "http", "https"}
isUrl(s) == Len(s) >= 3 /\ s[1] \in Schemes /\ s[2] = "://" /\ s[3] # ""

\* zod field schemas
z_string(min) == [k |-> "string", min |-> min, lits |-> {}, dflt |-> Str(<< >>)]
z_url == [k |-> "url", min |-> 0, lits |-> {}, dflt |-> Str(<< >>)]
z_literal(x) == [k |-> "literal", min |-> 0, lits |-> {<<x>>}, dflt |-> Str(<< >>)]
z_enum(xs) == [k |-> "enum", min |-> 0, lits |-> {<<x>> : x \in xs}, dflt |-> Str(<< >>)]
z_boolean == [k |-> "boolean", min |-> 0, lits |-> {}, dflt |-> Str(<< >>)]
z_record == [k |-> "record", min |-> 0, lits |-> {}, dflt |-> Str(<< >>)]
z_default(f, v) == [f EXCEPT !.k = "default:" \o f.k, !.dflt = v]
z_optional(f) == [f EXCEPT !.k = "optional:" \o f.k]
TimestampSchema == [k |-> "int.positive", min |-> 0, lits |-> {}, dflt |-> Str(<< >>)]

Base(f) ==
  IF f.k \in {"default:string", "optional:string"} THEN "string"
  ELSE IF f.k = "default:boolean" THEN "boolean"
  ELSE f.k

\* one field schema applied to a present value
Accepts(f, v) ==
  LET k == Base(f)
  IN  IF k = "string" THEN v.t = "string" /\ Len(v.s) >= f.min
      ELSE IF k = "url" THEN v.t = "string" /\ isUrl(v.s)
      ELSE IF k \in {"literal", "enum"} THEN v.t = "string" /\ v.s \in f.lits
      ELSE IF k = "boolean" THEN v.t = "boolean"
      ELSE IF k = "record" THEN v.t = "object"
      ELSE v.t = "number" /\ v.n % v.d = 0 /\ v.n > 0

\* z.object(shape).safeParse(x): the fields of the shape, in its order;
\* unknown keys are stripped; a default fills a missing field
RECURSIVE z_object(_, _, _, _)
z_object(shape, x, i, acc) ==
  IF i > Len(shape) THEN Ok(acc)
  ELSE LET name == shape[i][1]
           f == shape[i][2]
       IN  IF ~Has(x, name)
             THEN IF f.k \in {"default:string", "default:boolean"}
                    THEN z_object(shape, x, i + 1, Append(acc, <<Key(name), f.dflt>>))
                  ELSE IF f.k = "optional:string"
                    THEN z_object(shape, x, i + 1, acc)
                  ELSE Null
           ELSE IF Accepts(f, Get(x, name))
             THEN z_object(shape, x, i + 1, Append(acc, <<Key(name), Get(x, name)>>))
           ELSE Null

safeParse(shape, x) == z_object(shape, x, 1, << >>)

(***************************************************************************)
(* protocol.ts: the handshake schemas.                                      *)
(***************************************************************************)
SessionIdSchema == z_string(1)
PublicKeySchema == z_string(1)

HandshakeInitSchema ==
  << <<"type", z_literal("handshake_init")>>,
     <<"sessionId", SessionIdSchema>>,
     <<"desktopPublicKey", PublicKeySchema>>,
     <<"relayUrl", z_url>>,
     <<"version", z_default(z_string(0), Str(<<"1.0">>))>> >>

HandshakeResponseSchema ==
  << <<"type", z_literal("handshake_response")>>,
     <<"sessionId", SessionIdSchema>>,
     <<"mobilePublicKey", PublicKeySchema>> >>

HandshakeCompleteSchema ==
  << <<"type", z_literal("handshake_complete")>>,
     <<"sessionId", SessionIdSchema>>,
     <<"success", z_boolean>> >>

(***************************************************************************)
(* qr.ts: the pairing codec.                                                *)
(***************************************************************************)
QR_PAYLOAD_VERSION == <<"1">>

QrPayloadSchema ==
  << <<"v", z_string(0)>>,
     <<"s", z_string(0)>>,
     <<"k", z_string(0)>>,
     <<"r", z_url>> >>

createQrPayload(sessionId, desktopPublicKey, relayUrl) ==
  << <<Key("v"), Str(QR_PAYLOAD_VERSION)>>,
     <<Key("s"), Str(sessionId)>>,
     <<Key("k"), Str(desktopPublicKey)>>,
     <<Key("r"), Str(relayUrl)>> >>

serializeQrPayload(payload) == JSON_stringify(payload)

parseQrPayload(data) ==
  LET parsed == JSON_parse(data)
  IN  IF parsed.tag # "ok" THEN Null ELSE safeParse(QrPayloadSchema, parsed.val)

qrPayloadToHandshakeInit_SwapsFields(payload) ==
  << <<Key("type"), Str(<<"handshake_init">>)>>,
     <<Key("sessionId"), Get(payload, "k")>>,
     <<Key("desktopPublicKey"), Get(payload, "s")>>,
     <<Key("relayUrl"), Get(payload, "r")>>,
     <<Key("version"), Get(payload, "v")>> >>

qrPayloadToHandshakeInit(payload) ==
  << <<Key("type"), Str(<<"handshake_init">>)>>,
     <<Key("sessionId"), Get(payload, "s")>>,
     <<Key("desktopPublicKey"), Get(payload, "k")>>,
     <<Key("relayUrl"), Get(payload, "r")>>,
     <<Key("version"), Get(payload, "v")>> >>

createQrCodeData(sessionId, desktopPublicKey, relayUrl) ==
  serializeQrPayload(createQrPayload(sessionId, desktopPublicKey, relayUrl))

parseQrCodeData(data) ==
  LET payload == parseQrPayload(data)
  IN  IF payload.tag # "ok" THEN Null ELSE Ok(qrPayloadToHandshakeInit(payload.val))

isVersionSupported(payload) == Get(payload, "v") = Str(QR_PAYLOAD_VERSION)

(***************************************************************************)
(* Pairing by QR code: the desktop shows a pairing string, the string may   *)
(* reach the scanner damaged or come from another build, the mobile decodes *)
(* what it scanned.                                                         *)
(***************************************************************************)
PairIds == {<<"S1">>, <<"S2">>}
PairKeys == {<<"PK1">>, <<"PK2">>}
RelayUrls ==
  {<<"wss", "://", "relay.example.com">>,
   <<"https", "://", "relay.example.com", "/ws">>}
BadUrls == {<<"not-a-url">>, <<"wss", "://", "">>, << >>}
OtherVersions == {<<"2">>, <<"999.0">>}
QrFields == {"v", "s", "k", "r"}

QrStart ==
  [stage |-> "start", id |-> << >>, pub |-> << >>, url |-> << >>,
   data |-> << >>, defect |-> "none", result |-> Null]

QrShow(id, pub, url) ==
  /\ qr.stage = "start"
  /\ qr' = [qr EXCEPT !.stage = "shown", !.id = id, !.pub = pub, !.url = url,
                      !.data = createQrCodeData(id, pub, url)]
  /\ UNCHANGED <<relayVars, kx, val, task, cmp>>

QrDamaged(defect, data) ==
  /\ qr.stage = "shown"
  /\ qr.defect = "none"
  /\ qr' = [qr EXCEPT !.defect = defect, !.data = data]
  /\ UNCHANGED <<relayVars, kx, val, task, cmp>>

QrTruncate(n) ==
  QrDamaged("truncated", SubSeq(qr.data, 1, n))

QrDropField(name) ==
  QrDamaged("missing", serializeQrPayload(Without(createQrPayload(qr.id, qr.pub, qr.url), name)))

QrBadUrl(url) ==
  QrDamaged("url", serializeQrPayload(With(createQrPayload(qr.id, qr.pub, qr.url), "r", Str(url))))

QrOtherVersion(v) ==
  QrDamaged("version", serializeQrPayload(With(createQrPayload(qr.id, qr.pub, qr.url), "v", Str(v))))

QrEmptyField(name) ==
  QrDamaged("empty", serializeQrPayload(With(createQrPayload(qr.id, qr.pub, qr.url), name, Str(<< >>))))

QrScan ==
  /\ qr.stage = "shown"
  /\ qr' = [qr EXCEPT !.stage = "scanned", !.result = parseQrCodeData(qr.data)]
  /\ UNCHANGED <<relayVars, kx, val, task, cmp>>

CodecInit ==
  /\ sessions = << >>
  /\ ctx = [c \in Conns |-> NoCtx]
  /\ readyState = [c \in Conns |-> "OPEN"]
  /\ now = 0
  /\ out = << >>
  /\ last = Event("init", 0)
  /\ joins = 0
  /\ trace = NoTrace
  /\ kx = Off /\ qr = QrStart /\ val = Off /\ task = Off /\ cmp = Off

CodecNext ==
  \/ \E id \in PairIds, pub \in PairKeys, url \in RelayUrls : QrShow(id, pub, url)
  \/ \E n \in 0..(Len(qr.data) - 1) : QrTruncate(n)
  \/ \E name \in QrFields : QrDropField(name)
  \/ \E url \in BadUrls : QrBadUrl(url)
  \/ \E v \in OtherVersions : QrOtherVersion(v)
  \/ \E name \in {"s", "k"} : QrEmptyField(name)
  \/ QrScan

CodecSpec == CodecInit /\ [][CodecNext]_vars

\* C27: a pairing string made from a session id, a public key and a valid
\* relay URL decodes to a HandshakeInit carrying exactly these three values
C27_CodecRoundTrip ==
  (qr.stage = "scanned" /\ qr.defect = "none") =>
     /\ qr.result.tag = "ok"
     /\ safeParse(HandshakeInitSchema, qr.result.val).tag = "ok"
     /\ Get(qr.result.val, "sessionId") = Str(qr.id)
     /\ Get(qr.result.val, "desktopPublicKey") = Str(qr.pub)
     /\ Get(qr.result.val, "relayUrl") = Str(qr.url)

\* C27 witness: an undamaged pairing string has been decoded
C27_Witness ==
  /\ qr.stage = "scanned"
  /\ qr.defect = "none"
  /\ qr.result.tag = "ok"
  /\ qr.id # qr.pub

\* C28: a pairing string that is malformed JSON, lacks a required field,
\* has a malformed relay URL or carries an unsupported version decodes to
\* the invalid result, never to a HandshakeInit
C28_DecodeFailsClosed ==
  (qr.stage = "scanned" /\ qr.defect \in {"truncated", "missing", "url", "version"})
     => qr.result.tag = "null"

(***************************************************************************)
(* protocol.ts: events, commands and the discriminated unions.              *)
(***************************************************************************)
AgentStateSchema ==
  z_enum({"idle", "thinking", "tool_use", "waiting_permission", "streaming", "error"})

AgentStateEventSchema ==
  << <<"type", z_literal("agent_state")>>,
     <<"state", AgentStateSchema>>,
     <<"timestamp", TimestampSchema>> >>

TextContentEventSchema ==
  << <<"type", z_literal("text_content")>>,
     <<"content", z_string(0)>>,
     <<"role", z_enum({"assistant", "thinking"})>>,
     <<"isPartial", z_default(z_boolean, Bool(FALSE))>>,
     <<"timestamp", TimestampSchema>> >>

ToolUseEventSchema ==
  << <<"type", z_literal("tool_use")>>,
     <<"toolName", z_string(0)>>,
     <<"toolId", z_string(0)>>,
     <<"input", z_record>>,
     <<"timestamp", TimestampSchema>> >>

ToolResultEventSchema ==
  << <<"type", z_literal("tool_result")>>,
     <<"toolId", z_string(0)>>,
     <<"result", z_string(0)>>,
     <<"isError", z_default(z_boolean, Bool(FALSE))>>,
     <<"timestamp", TimestampSchema>> >>

PermissionRequestEventSchema ==
  << <<"type", z_literal("permission_request")>>,
     <<"requestId", z_string(0)>>,
     <<"description", z_string(0)>>,
     <<"tool", z_string(0)>>,
     <<"details", z_optional(z_string(0))>>,
     <<"timestamp", TimestampSchema>> >>

DiffContentEventSchema ==
  << <<"type", z_literal("diff_content")>>,
     <<"filePath", z_string(0)>>,
     <<"diff", z_string(0)>>,
     <<"timestamp", TimestampSchema>> >>

ErrorEventSchema ==
  << <<"type", z_literal("error")>>,
     <<"message", z_string(0)>>,
     <<"code", z_optional(z_string(0))>>,
     <<"timestamp", TimestampSchema>> >>

SessionEndedEventSchema ==
  << <<"type", z_literal("session_ended")>>,
     <<"reason", z_enum({"user_disconnect", "timeout", "error"})>>,
     <<"timestamp", TimestampSchema>> >>

SendMessageCommandSchema_AnyContent ==
  << <<"type", z_literal("send_message")>>,
     <<"content", z_string(0)>>,
     <<"timestamp", TimestampSchema>> >>

SendMessageCommandSchema ==
  << <<"type", z_literal("send_message")>>,
     <<"content", z_string(1)>>,
     <<"timestamp", TimestampSchema>> >>

ApprovePermissionCommandSchema ==
  << <<"type", z_literal("approve_permission")>>,
     <<"requestId", z_string(0)>>,
     <<"timestamp", TimestampSchema>> >>

RejectPermissionCommandSchema ==
  << <<"type", z_literal("reject_permission")>>,
     <<"requestId", z_string(0)>>,
     <<"timestamp", TimestampSchema>> >>

CancelOperationCommandSchema ==
  << <<"type", z_literal("cancel_operation")>>,
     <<"timestamp", TimestampSchema>> >>

DisconnectCommandSchema ==
  << <<"type", z_literal("disconnect")>>,
     <<"timestamp", TimestampSchema>> >>

\* the literal a variant declares for its discriminator
VariantType(schema) == CHOOSE lit \in schema[1][2].lits : TRUE

\* z.discriminatedUnion("type", variants).safeParse(x): an unknown
\* discriminator is accepted as an empty value
z_discriminatedUnion_Drops(variants, x) ==
  IF ~Has(x, "type") \/ Get(x, "type").t # "string" THEN Null
  ELSE LET matching == {i \in 1..Len(variants) : VariantType(variants[i]) = Get(x, "type").s}
       IN  IF matching = {} THEN Ok(<< >>)
           ELSE safeParse(variants[CHOOSE i \in matching : TRUE], x)

\* z.discriminatedUnion("type", variants).safeParse(x)
z_discriminatedUnion(variants, x) ==
  IF ~Has(x, "type") \/ Get(x, "type").t # "string" THEN Null
  ELSE LET matching == {i \in 1..Len(variants) : VariantType(variants[i]) = Get(x, "type").s}
       IN  IF matching = {} THEN Null
           ELSE safeParse(variants[CHOOSE i \in matching : TRUE], x)

HandshakeMessageSchema ==
  <<HandshakeInitSchema, HandshakeResponseSchema, HandshakeCompleteSchema>>

ClaudeEventSchema ==
  <<AgentStateEventSchema, TextContentEventSchema, ToolUseEventSchema,
    ToolResultEventSchema, PermissionRequestEventSchema, DiffContentEventSchema,
    ErrorEventSchema, SessionEndedEventSchema>>

CommandSchema ==
  <<SendMessageCommandSchema, ApprovePermissionCommandSchema,
    RejectPermissionCommandSchema, CancelOperationCommandSchema,
    DisconnectCommandSchema>>

(***************************************************************************)
(* Message validation: a well-formed message of one of the three unions is  *)
(* composed, possibly altered in one respect, and validated either by the   *)
(* union or by the schema of its own variant.                               *)
(***************************************************************************)
Field(name, v) == <<Key(name), v>>
Text(x) == Str(<<x>>)
Stamp == Num(1, 1)

HandshakeSamples ==
  << <<Field("type", Text("handshake_init")), Field("sessionId", Text("abc123")),
       Field("desktopPublicKey", Text("key==")),
       Field("relayUrl", Str(<<"wss", "://", "relay.example.com">>)),
       Field("version", Text("1.0"))>>,
     <<Field("type", Text("handshake_response")), Field("sessionId", Text("abc123")),
       Field("mobilePublicKey", Text("key=="))>>,
     <<Field("type", Text("handshake_complete")), Field("sessionId", Text("abc123")),
       Field("success", Bool(TRUE))>> >>

EventSamples ==
  << <<Field("type", Text("agent_state")), Field("state", Text("thinking")),
       Field("timestamp", Stamp)>>,
     <<Field("type", Text("text_content")), Field("content", Text("Hello")),
       Field("role", Text("assistant")), Field("isPartial", Bool(TRUE)),
       Field("timestamp", Stamp)>>,
     <<Field("type", Text("tool_use")), Field("toolName", Text("Read")),
       Field("toolId", Text("tool_1")), Field("input", Obj),
       Field("timestamp", Stamp)>>,
     <<Field("type", Text("tool_result")), Field("toolId", Text("tool_1")),
       Field("result", Text("done")), Field("isError", Bool(FALSE)),
       Field("timestamp", Stamp)>>,
     <<Field("type", Text("permission_request")), Field("requestId", Text("req_123")),
       Field("description", Text("Write file")), Field("tool", Text("Write")),
       Field("details", Text("/tmp/x")), Field("timestamp", Stamp)>>,
     <<Field("type", Text("diff_content")), Field("filePath", Text("a.ts")),
       Field("diff", Text("@@")), Field("timestamp", Stamp)>>,
     <<Field("type", Text("error")), Field("message", Text("failed")),
       Field("code", Text("E1")), Field("timestamp", Stamp)>>,
     <<Field("type", Text("session_ended")), Field("reason", Text("timeout")),
       Field("timestamp", Stamp)>> >>

CommandSamples ==
  << <<Field("type", Text("send_message")), Field("content", Text("Hello Claude!")),
       Field("timestamp", Stamp)>>,
     <<Field("type", Text("approve_permission")), Field("requestId", Text("req_123")),
       Field("timestamp", Stamp)>>,
     <<Field("type", Text("reject_permission")), Field("requestId", Text("req_123")),
       Field("timestamp", Stamp)>>,
     <<Field("type", Text("cancel_operation")), Field("timestamp", Stamp)>>,
     <<Field("type", Text("disconnect")), Field("timestamp", Stamp)>> >>

Unions == {"handshake", "event", "command"}
UnionSchema(u) ==
  IF u = "handshake" THEN HandshakeMessageSchema
  ELSE IF u = "event" THEN ClaudeEventSchema
  ELSE CommandSchema
UnionSamples(u) ==
  IF u = "handshake" THEN HandshakeSamples
  ELSE IF u = "event" THEN EventSamples
  ELSE CommandSamples

UnionTypes(u) == {VariantType(UnionSchema(u)[i]) : i \in 1..Len(UnionSchema(u))}
AllTypes == UNION {UnionTypes(u) : u \in Unions}
FieldNames(schema) == {schema[i][1] : i \in 1..Len(schema)}
FieldSchema(schema, name) == schema[CHOOSE i \in 1..Len(schema) : schema[i][1] = name][2]
Required(schema, name) ==
  FieldSchema(schema, name).k \notin {"default:string", "default:boolean", "optional:string"}

UnknownTypes == {<<"unknown_type">>}
BadStamps == {Num(0, 1), Num(0 - 1, 1), Num(3, 2)}

ValStart ==
  [stage |-> "start", union |-> "handshake", variant |-> 1, via |-> "union",
   input |-> << >>, defect |-> "none", result |-> Null]

ValCompose(u, i, via) ==
  /\ val.stage = "start"
  /\ val' = [val EXCEPT !.stage = "composed", !.union = u, !.variant = i,
                        !.via = via, !.input = UnionSamples(u)[i]]
  /\ UNCHANGED <<relayVars, kx, qr, task, cmp>>

ValAltered(defect, input) ==
  /\ val.stage = "composed"
  /\ val.defect = "none"
  /\ val' = [val EXCEPT !.defect = defect, !.input = input]
  /\ UNCHANGED <<relayVars, kx, qr, task, cmp>>

ValDropField(name) ==
  /\ val.stage = "composed"
  /\ Has(val.input, name)
  /\ ValAltered(IF Required(UnionSchema(val.union)[val.variant], name)
                  THEN "missing" ELSE "omitted",
                Without(val.input, name))

ValRetype(t) ==
  /\ val.stage = "composed"
  /\ Has(val.input, "type")
  /\ t # Get(val.input, "type").s
  /\ ValAltered(IF val.via = "union" /\ t \in UnionTypes(val.union)
                  THEN "retyped" ELSE "discriminator",
                With(val.input, "type", Str(t)))

ValBadUrl(url) ==
  /\ val.stage = "composed"
  /\ Has(val.input, "relayUrl")
  /\ ValAltered("url", With(val.input, "relayUrl", Str(url)))

ValEmptyContent ==
  /\ val.stage = "composed"
  /\ Get(val.input, "type") = Text("send_message")
  /\ ValAltered("content", With(val.input, "content", Str(<< >>)))

ValBadStamp(ts) ==
  /\ val.stage = "composed"
  /\ Has(val.input, "timestamp")
  /\ ValAltered("timestamp", With(val.input, "timestamp", ts))

ValValidate ==
  /\ val.stage = "composed"
  /\ val' = [val EXCEPT !.stage = "validated",
                        !.result = IF val.via = "union"
                                     THEN z_discriminatedUnion(UnionSchema(val.union), val.input)
                                     ELSE safeParse(UnionSchema(val.union)[val.variant], val.input)]
  /\ UNCHANGED <<relayVars, kx, qr, task, cmp>>

SchemaInit ==
  /\ sessions = << >>
  /\ ctx = [c \in Conns |-> NoCtx]
  /\ readyState = [c \in Conns |-> "OPEN"]
  /\ now = 0
  /\ out = << >>
  /\ last = Event("init", 0)
  /\ joins = 0
  /\ trace = NoTrace
  /\ kx = Off /\ qr = Off /\ val = ValStart /\ task = Off /\ cmp = Off

SchemaNext ==
  \/ \E u \in Unions : \E i \in 1..Len(UnionSamples(u)), via \in {"union", "variant"} :
        ValCompose(u, i, via)
  \/ \E name \in FieldNames(UnionSchema(val.union)[val.variant]) : ValDropField(name)
  \/ \E t \in AllTypes \cup UnknownTypes : ValRetype(t)
  \/ \E url \in BadUrls : ValBadUrl(url)
  \/ ValEmptyContent
  \/ \E ts \in BadStamps : ValBadStamp(ts)
  \/ ValValidate

SchemaSpec == SchemaInit /\ [][SchemaNext]_vars

\* results of validation agree
Same(a, b) == a.tag = b.tag /\ (a.tag = "ok" => a.val = b.val)

\* C29: in the handshake, event and command unions the discriminator selects
\* exactly one variant, whose schema is the one applied, and a value whose
\* discriminator is none of the declared literals fails validation
C29_DiscriminatorSelects ==
  (val.stage = "validated" /\ val.via = "union") =>
     LET U == UnionSchema(val.union)
         t == Get(val.input, "type").s
         selected == {i \in 1..Len(U) : VariantType(U[i]) = t}
     IN  /\ Cardinality(selected) <= 1
         /\ \A i \in selected : Same(val.result, safeParse(U[i], val.input))
         /\ selected = {} => val.result.tag = "null"
         /\ val.result.tag = "ok" =>
              /\ Get(val.result.val, "type") = Get(val.input, "type")
              /\ Cardinality({i \in 1..Len(U) : safeParse(U[i], val.input).tag = "ok"}) = 1

\* C29 witness: a value with an undeclared discriminator has been validated
\* by its union
C29_Witness ==
  /\ val.stage = "validated"
  /\ val.via = "union"
  /\ val.defect = "discriminator"
  /\ val.result.tag = "null"

\* C30: validation rejects a message with a missing required field, a wrong
\* literal discriminator, a malformed relayUrl, empty send_message content or
\* a timestamp that is zero, negative or not an integer, and accepts a
\* message with none of these defects
C30_ValidationRejects ==
  val.stage = "validated" =>
     /\ val.defect \in {"missing", "discriminator", "url", "content", "timestamp"}
          => val.result.tag = "null"
     /\ val.defect \in {"none", "omitted"} => val.result.tag = "ok"

\* C30 witness: a command whose timestamp is not an integer has been rejected
C30_Witness ==
  /\ val.stage = "validated"
  /\ val.defect = "timestamp"
  /\ Get(val.input, "timestamp") = Num(3, 2)
  /\ val.result.tag = "null"

(***************************************************************************)
(* The relay statement by statement.  A callback that has been entered      *)
(* (a frame handler, the close handler, the interval timer) executes its    *)
(* SessionStore calls one step at a time; task[k] is the callback of        *)
(* connection k, task[0] the timer.  The callbacks are plain synchronous    *)
(* functions: the event loop enters the next one when the one before has    *)
(* returned.                                                                *)
(***************************************************************************)
Callers == Conns \cup {0}

NoExpect ==
  [sessions |-> << >>, ctx |-> [c \in Conns |-> NoCtx], out |-> << >>, closed |-> {}]

IdleTask ==
  [op |-> "none", msg |-> NoMessage, pc |-> "idle", peer |-> NoClient,
   i |-> 0, at |-> 0, out |-> << >>, expect |-> NoExpect]

\* what a step leaves behind: registry, contexts, sockets it closed, the
\* callback's frames so far, its local `peer` / `existingPeer`, where it goes on
Stepped(ss, cx, closed, o, peer, pc) ==
  [sessions |-> ss, ctx |-> cx, closed |-> closed, out |-> o, peer |-> peer, pc |-> pc]

\* the leave that handleJoin, handleLeave and the close handler share:
\* getPeer, then removeClient and the notification of the peer
stepLeaveSlot(k, t, first, second, then) ==
  IF t.pc = first
    THEN Stepped(sessions, ctx, {}, t.out,
                 getPeer(sessions, ctx[k].sessionId, ctx[k].role), second)
    ELSE Stepped(removeClient(sessions, ctx[k].sessionId, ctx[k].role).sessions, ctx, {},
                 t.out \o (IF t.peer # NoClient THEN send(t.peer.socket, Plain("peer_left"))
                                                ELSE << >>),
                 t.peer, then)

stepJoin(k, t) ==
  IF t.pc = "join"
    THEN Stepped(sessions, ctx, {}, t.out, t.peer,
                 IF Joined(k) THEN "join.getPeer" ELSE "join.addClient")
  ELSE IF t.pc \in {"join.getPeer", "join.removeClient"}
    THEN stepLeaveSlot(k, t, "join.getPeer", "join.removeClient", "join.addClient")
  ELSE IF t.pc = "join.addClient"
    THEN LET added == addClient(sessions, t.msg.session_id,
                                [socket |-> k, role |-> t.msg.role, lastHeartbeat |-> now])
         IN Stepped(added.sessions, ctx, {}, t.out, added.existingPeer, "join.notify")
  ELSE Stepped(sessions,
               [ctx EXCEPT ![k] = [sessionId |-> t.msg.session_id, role |-> t.msg.role]],
               {},
               t.out \o send(k, Plain("joined")) \o
                 (IF t.peer # NoClient THEN send(t.peer.socket, Plain("peer_joined"))
                                        ELSE << >>),
               t.peer, "idle")

stepLeave(k, t) ==
  IF t.pc = "leave"
    THEN IF ~Truthy(ctx[k].sessionId) \/ ~Truthy(ctx[k].role)
           THEN Stepped(sessions, ctx, {},
                        t.out \o send(k, ErrorFrame("Not joined to a session")),
                        t.peer, "idle")
           ELSE Stepped(sessions, ctx, {}, t.out, t.peer, "leave.getPeer")
  ELSE IF t.pc \in {"leave.getPeer", "leave.removeClient"}
    THEN stepLeaveSlot(k, t, "leave.getPeer", "leave.removeClient", "leave.reset")
  ELSE Stepped(sessions, [ctx EXCEPT ![k] = NoCtx], {}, t.out, t.peer, "idle")

stepPing(k, t) ==
  IF t.pc = "ping"
    THEN Stepped(IF Joined(k) THEN updateHeartbeat(sessions, ctx[k].sessionId, ctx[k].role)
                              ELSE sessions,
                 ctx, {}, t.out, t.peer, "ping.pong")
    ELSE Stepped(sessions, ctx, {}, t.out \o send(k, Plain("pong")), t.peer, "idle")

stepClose(k, t) ==
  IF t.pc = "close"
    THEN Stepped(sessions, ctx, {}, t.out, t.peer,
                 IF Joined(k) THEN "close.getPeer" ELSE "close.return")
  ELSE IF t.pc \in {"close.getPeer", "close.removeClient"}
    THEN stepLeaveSlot(k, t, "close.getPeer", "close.removeClient", "close.return")
  ELSE Stepped(sessions, [ctx EXCEPT ![k] = NoCtx], {}, t.out, t.peer, "idle")

\* cleanupExpired(): one turn of its loop over the sessions (t.i counts the
\* turns), which compares with the clock reading t.at taken before the loop.
\* Every entry is looked at by itself, so the order of the turns is immaterial
\* and fixed here.
SweepOrder == <<"", "S1">>

stepSweep(t) ==
  LET i == t.i
      id == SweepOrder[i]
      gone == id \in DOMAIN sessions /\ sessions[id].expiresAt < t.at
  IN Stepped(IF gone THEN MapDelete(sessions, id) ELSE sessions, ctx,
             IF gone
               THEN {c \in Conns : readyState[c] = "OPEN" /\
                       (sessions[id].desktop.socket = c \/ sessions[id].mobile.socket = c)}
               ELSE {},
             t.out, t.peer,
             IF i < Len(SweepOrder) THEN "sweep" ELSE "idle")

step(k, t) ==
  IF t.op = "join" THEN stepJoin(k, t)
  ELSE IF t.op = "leave" THEN stepLeave(k, t)
  ELSE IF t.op = "ping" THEN stepPing(k, t)
  ELSE IF t.op = "close" THEN stepClose(k, t)
  ELSE stepSweep(t)

\* the event loop enters a callback while others are still executing
Dispatchable_Preempts(ts) == TRUE

\* the event loop enters a callback only when the call stack is empty
Dispatchable(ts) == \A k \in Callers : ts[k].pc = "idle"

Entered(op, msg, expect) ==
  [op |-> op, msg |-> msg, pc |-> op, peer |-> NoClient, i |-> 1, at |-> now,
   out |-> << >>, expect |-> expect]

Enter(k, t) ==
  /\ Dispatchable(task)
  /\ task' = [task EXCEPT ![k] = t]
  /\ UNCHANGED <<relayVars, kx, qr, val, cmp>>

EnterJoin(c, raw) ==
  /\ Served(c)
  /\ parseMessage(raw).type = "join"
  /\ joins < MaxJoins
  /\ LET res == handleJoin(c, parseMessage(raw))
     IN Enter(c, Entered("join", parseMessage(raw),
                         [sessions |-> res.sessions, ctx |-> res.ctx,
                          out |-> res.out, closed |-> {}]))

EnterLeave(c, raw) ==
  /\ Served(c)
  /\ parseMessage(raw).type = "leave"
  /\ LET res == handleLeave(c)
     IN Enter(c, Entered("leave", parseMessage(raw),
                         [sessions |-> res.sessions, ctx |-> res.ctx,
                          out |-> res.out, closed |-> {}]))

EnterPing(c, raw) ==
  /\ Served(c)
  /\ parseMessage(raw).type = "ping"
  /\ LET res == handlePing(c, parseMessage(raw))
     IN Enter(c, Entered("ping", parseMessage(raw),
                         [sessions |-> res.sessions, ctx |-> res.ctx,
                          out |-> res.out, closed |-> {}]))

EnterClose(c) ==
  /\ readyState[c] = "CLOSING"
  /\ task[c].pc = "idle"
  /\ LET res == onClose(c)
     IN Enter(c, Entered("close", NoMessage,
                         [sessions |-> res.sessions,
                          ctx |-> [res.ctx EXCEPT ![c] = NoCtx],
                          out |-> res.out, closed |-> {}]))

EnterSweep ==
  /\ task[0].pc = "idle"
  /\ LET res == cleanupExpired(sessions)
     IN Enter(0, Entered("sweep", NoMessage,
                         [sessions |-> res.sessions, ctx |-> ctx,
                          out |-> << >>, closed |-> res.closed]))

\* one step of callback k; its last step returns to the event loop
Step(k) ==
  /\ task[k].pc # "idle"
  /\ LET t == task[k]
         r == step(k, t)
     IN /\ sessions' = r.sessions
        /\ ctx' = r.ctx
        /\ readyState' = [c \in Conns |->
                            IF c \in r.closed THEN "CLOSING"
                            ELSE IF c = k /\ t.op = "close" /\ r.pc = "idle" THEN "CLOSED"
                            ELSE readyState[c]]
        /\ IF r.pc = "idle"
             THEN /\ task' = [task EXCEPT ![k] = IdleTask]
                  /\ out' = r.out
                  /\ last' = Event(t.op, k)
                  /\ joins' = IF t.op = "join" THEN joins + 1 ELSE joins
             ELSE /\ task' = [task EXCEPT ![k] = [t EXCEPT !.pc = r.pc, !.peer = r.peer,
                                                           !.i = @ + 1, !.out = r.out]]
                  /\ UNCHANGED <<out, last, joins>>
  /\ UNCHANGED <<now, trace, kx, qr, val, cmp>>

StepClosing(c) == Dispatchable(task) /\ task[c].pc = "idle" /\ SocketClosing(c)

StepTick == Dispatchable(task) /\ Tick

StepInit ==
  /\ sessions = << >>
  /\ ctx = [c \in Conns |-> NoCtx]
  /\ readyState = [c \in Conns |-> "OPEN"]
  /\ now = 0
  /\ out = << >>
  /\ last = Event("init", 0)
  /\ joins = 0
  /\ trace = NoTrace
  /\ kx = Off /\ qr = Off /\ val = Off /\ cmp = Off
  /\ task = [k \in Callers |-> IdleTask]

StepNext ==
  \/ \E c \in Conns, raw \in RawFrames : EnterJoin(c, raw)
  \/ \E c \in Conns, raw \in RawFrames : EnterLeave(c, raw)
  \/ \E c \in Conns, raw \in RawFrames : EnterPing(c, raw)
  \/ \E c \in Conns : EnterClose(c)
  \/ EnterSweep
  \/ \E k \in Callers : Step(k)
  \/ \E c \in Conns : StepClosing(c)
  \/ StepTick

StepSpec == StepInit /\ [][StepNext]_vars

\* C31: the registry operations of join, leave, ping, disconnect and the
\* periodic sweep are serialized: whenever one of them returns, registry,
\* contexts, closed sockets and frames sent are those of the operation
\* carried out alone on the state it was entered in, so every reachable
\* state is that of a serial order of the operations; and no state holds a
\* session with inconsistent slots: a client in the slot of the other role,
\* or a slot still held for a callback that has returned from its leave
C31_Serialized ==
  [][\A k \in Callers :
       (task[k].pc # "idle" /\ task'[k].pc = "idle") =>
          /\ sessions' = task[k].expect.sessions
          /\ ctx' = task[k].expect.ctx
          /\ out' = task[k].expect.out
          /\ \A c \in task[k].expect.closed : readyState'[c] = "CLOSING"
          /\ \A id \in DOMAIN sessions', r \in Roles :
               Slot(sessions', id, r) # NoClient => Slot(sessions', id, r).role = r
          /\ \A id \in DOMAIN sessions' :
               Slot(sessions', id, "desktop") # NoClient \/ Slot(sessions', id, "mobile") # NoClient
    ]_vars

\* C31 witness: a join is between its removeClient and its addClient while
\* an expired session waits for the sweep
C31_Witness ==
  \E c \in Conns :
    /\ task[c].op = "join"
    /\ task[c].pc = "join.addClient"
    /\ Expired(sessions) # {}

(***************************************************************************)
(* The relay with one more connection and a session lifetime that outlasts  *)
(* the run (no clock, no sweep), keeping for every connection whether its   *)
(* latest news of its peer is `peer_left`.                                  *)
(***************************************************************************)
MoreConns == 1..(NConn + 1)

PresenceInit ==
  /\ sessions = << >>
  /\ ctx = [c \in MoreConns |-> NoCtx]
  /\ readyState = [c \in MoreConns |-> "OPEN"]
  /\ now = 0
  /\ out = << >>
  /\ last = Event("init", 0)
  /\ joins = 0
  /\ trace = [NoTrace EXCEPT !.presence = TRUE]
  /\ kx = Off /\ qr = Off /\ val = Off /\ task = Off /\ cmp = Off

PresenceNext ==
  \/ \E c \in MoreConns, raw \in RawFrames : OnJoin(c, raw)
  \/ \E c \in MoreConns, raw \in RawFrames : OnMessage(c, raw)
  \/ \E c \in MoreConns, raw \in RawFrames : OnLeave(c, raw)
  \/ \E c \in MoreConns : SocketClosing(c)
  \/ \E c \in MoreConns : OnClose(c)

PresenceSpec == PresenceInit /\ [][PresenceNext]_vars

\* ---- C32 ---------------------------------------------------------------
\* C32: a leave, the implicit leave of a re-join or a disconnect of
\* connection C deregisters only C: no slot held by another connection is
\* cleared (the slot a join asks for apart), so no session of another
\* connection is deleted, and no `peer_left` goes out while another
\* connection holds the slot C's context names
C32_DeregistersOnlyItself ==
  [][\A c \in Conns, raw \in RawFrames :
       (/\ last'.c = c
        /\ \/ last'.op = "leave" /\ OnLeave(c, raw)
           \/ last'.op = "close" /\ OnClose(c)
           \/ last'.op = "join" /\ OnJoin(c, raw))
       => /\ \A id \in DOMAIN sessions, r \in Roles :
               LET held == Slot(sessions, id, r)
               IN (/\ held # NoClient
                   /\ held.socket # c
                   /\ ~(last'.op = "join" /\ id = raw.session_id /\ r = raw.role))
                  => Slot(sessions', id, r).socket = held.socket
          /\ LET held == Slot(sessions, ctx[c].sessionId, ctx[c].role)
             IN (held # NoClient /\ held.socket # c /\ readyState[held.socket] = "OPEN")
                => \A i \in DOMAIN out' : out'[i].type # "peer_left"]_vars

\* ---- C33 ---------------------------------------------------------------
\* C33: a connection whose latest news of its peer is `peer_left` receives
\* no `message` frame until it receives `peer_joined` or joins again
C33_NoMessageAfterPeerLeft ==
  [][\A d \in MoreConns :
       d \in trace.left =>
         ~\E i \in DOMAIN out' : out'[i].to = d /\ out'[i].type = "message"]_vars

\* ---- C38 ---------------------------------------------------------------
\* C38: whatever string is scanned, a result of parseQrCodeData other than
\* null passes HandshakeInitSchema (non-empty sessionId, non-empty
\* desktopPublicKey, well-formed relayUrl)
C38_DecodedIsHandshakeInit ==
  (qr.stage = "scanned" /\ qr.result.tag = "ok")
     => safeParse(HandshakeInitSchema, qr.result.val).tag = "ok"

(***************************************************************************)
(* crypto.ts: constantTimeEqual, with nacl.verify and its byte loop vn.     *)
(* A byte array is the sequence of its bytes.                               *)
(***************************************************************************)
MaxBytes == 2        \* longest array compared
NByteValues == 3     \* the bytes 0 .. NByteValues - 1 occur in the arrays
ByteArrays == UNION {[1..n -> 0..(NByteValues - 1)] : n \in 0..MaxBytes}

\* x ^ y and x | y on w bits
RECURSIVE BitXor(_, _, _)
BitXor(x, y, w) ==
  IF w = 0 THEN 0 ELSE ((x + y) % 2) + 2 * BitXor(x \div 2, y \div 2, w - 1)

RECURSIVE BitOr(_, _, _)
BitOr(x, y, w) ==
  IF w = 0 THEN 0
  ELSE (IF x % 2 = 1 \/ y % 2 = 1 THEN 1 ELSE 0) + 2 * BitOr(x \div 2, y \div 2, w - 1)

\* x >>> 8 of a 32-bit value x >= -256
ShiftRight8(x) == IF x >= 0 THEN x \div 256 ELSE (x \div 256) + 16777216

\* for (i = 0; i < n; i++) d |= x[i] ^ y[i]
RECURSIVE vnLoop(_, _, _, _)
vnLoop(x, y, i, d) ==
  IF i > Len(x) THEN d ELSE vnLoop(x, y, i + 1, BitOr(d, BitXor(x[i], y[i], 8), 8))

\* (1 & ((d - 1) >>> 8)) - 1: 0 when no byte differs, -1 otherwise
vn(x, y) == (ShiftRight8(vnLoop(x, y, 1, 0) - 1) % 2) - 1

\* nacl.verify: zero-length arguments are considered not equal
nacl_verify(x, y) ==
  IF Len(x) = 0 \/ Len(y) = 0 THEN FALSE
  ELSE IF Len(x) # Len(y) THEN FALSE
  ELSE vn(x, y) = 0

constantTimeEqual(a, b) ==
  IF Len(a) # Len(b) THEN FALSE ELSE nacl_verify(a, b)

CmpStart == [stage |-> "start", a |-> << >>, b |-> << >>, result |-> FALSE]

CmpCall(a, b) ==
  /\ cmp.stage = "start"
  /\ cmp' = [cmp EXCEPT !.stage = "called", !.a = a, !.b = b]
  /\ UNCHANGED <<relayVars, kx, qr, val, task>>

CmpReturn ==
  /\ cmp.stage = "called"
  /\ cmp' = [cmp EXCEPT !.stage = "returned", !.result = constantTimeEqual(cmp.a, cmp.b)]
  /\ UNCHANGED <<relayVars, kx, qr, val, task>>

CompareInit ==
  /\ sessions = << >>
  /\ ctx = [c \in Conns |-> NoCtx]
  /\ readyState = [c \in Conns |-> "OPEN"]
  /\ now = 0
  /\ out = << >>
  /\ last = Event("init", 0)
  /\ joins = 0
  /\ trace = NoTrace
  /\ kx = Off /\ qr = Off /\ val = Off /\ task = Off /\ cmp = CmpStart

CompareNext ==
  \/ \E a \in ByteArrays, b \in ByteArrays : CmpCall(a, b)
  \/ CmpReturn

CompareSpec == CompareInit /\ [][CompareNext]_vars

\* ---- C39 ---------------------------------------------------------------
\* C39: constantTimeEqual(a, b) is true exactly when a and b have the same
\* length and the same byte at every position, empty arrays and arrays of
\* different lengths included
C39_ConstantTimeEqual ==
  cmp.stage = "returned" =>
     (cmp.result <=> /\ Len(cmp.a) = Len(cmp.b)
                     /\ \A i \in 1..Len(cmp.a) : cmp.a[i] = cmp.b[i])

\* ---- C34 ---------------------------------------------------------------
\* C34: a connection that was told `joined` for (s, r) and has neither left
\* nor closed is joined, whatever string s is: its `message` and `leave`
\* frames carrying (s, r) are never answered "Not joined to a session"
C34_JoinedIsJoined ==
  [][\A c \in Conns, raw \in RawFrames :
       (/\ last'.c = c
        /\ \/ last'.op = "message" /\ OnMessage(c, raw)
           \/ last'.op = "leave" /\ OnLeave(c, raw)
        /\ HasIdentity(c)
        /\ raw.session_id = ctx[c].sessionId
        /\ raw.role = ctx[c].role)
       => \A i \in DOMAIN out' : out'[i].error # "Not joined to a session"]_vars

\* ---- C35 ---------------------------------------------------------------
\* C35: a `message`, `peer_joined` or `peer_left` frame that a connection
\* receives through another connection's frame or close comes from the
\* session the receiver's context names, from the opposite role
C35_SessionsIsolated ==
  [][\A c \in Conns, raw \in RawFrames :
       (/\ last'.c = c
        /\ \/ last'.op = "join" /\ OnJoin(c, raw)
           \/ last'.op = "message" /\ OnMessage(c, raw)
           \/ last'.op = "leave" /\ OnLeave(c, raw)
           \/ last'.op = "close" /\ OnClose(c))
       => \A i \in DOMAIN out' :
            (out'[i].to # c /\ out'[i].type \in {"message", "peer_joined", "peer_left"})
            => LET d == out'[i].to
                   s == IF out'[i].type = "peer_joined" THEN raw.session_id
                                                        ELSE ctx[c].sessionId
                   r == IF out'[i].type = "peer_joined" THEN raw.role ELSE ctx[c].role
               IN ctx'[d].sessionId = s /\ ctx'[d].role = Other(r)]_vars

\* ---- C36 ---------------------------------------------------------------
\* C36: every connection is held in at most one slot of the registry
C36_OneSlotPerConnection ==
  \A c \in Conns :
    Cardinality({p \in SessionIds \X Roles : Slot(sessions, p[1], p[2]).socket = c}) <= 1

\* ---- C37 ---------------------------------------------------------------
\* C37: handling a `message` frame, forwarded or rejected, leaves the
\* registry as it was, and the expiry of a session that stays in the
\* registry moves only when a join or a ping is handled: messages do not
\* extend a session's lifetime
C37_MessageLeavesRegistry ==
  [][/\ \A c \in Conns, raw \in RawFrames :
          (last'.op = "message" /\ last'.c = c /\ OnMessage(c, raw))
          => sessions' = sessions
     /\ \A id \in DOMAIN sessions \cap DOMAIN sessions' :
          sessions'[id].expiresAt # sessions[id].expiresAt
          => last'.op \in {"join", "ping"}]_vars

\* C37 witness: a frame has just been relayed in a session whose expiry is
\* not ahead of the clock
C37_Witness ==
  /\ last.op = "message"
  /\ \E i \in DOMAIN out : out[i].type = "message"
  /\ \E id \in DOMAIN sessions :
       /\ sessions[id].expiresAt <= now
       /\ sessions[id].desktop # NoClient
       /\ sessions[id].mobile # NoClient

TypeOK ==
  /\ now \in 0..MaxTime
  /\ readyState \in [Conns -> {"OPEN", "CLOSING", "CLOSED"}]
  /\ DOMAIN sessions \subseteq SessionIds
====
